---------------------------- MODULE Spec2Model ----------------------------
(***************************************************************************)
(* Bulk-load pipeline of carga_masiva_generico: UPLOAD -> RENDER -> COMMIT *)
(* for the entity "productos".                                             *)
(*                                                                         *)
(* Text is a sequence of one-character strings.  An accented letter is one *)
(* element written with a trailing apostrophe ("o'" is o-acute, "O'" is    *)
(* O-acute); the combining acute accent alone is "'".                      *)
(*                                                                         *)
(* A cell is a Python object as pandas hands it to the code:               *)
(*   [t |-> "str",   s |-> text, v |-> 0]     a str                        *)
(*   [t |-> "int",   s |-> <<>>, v |-> n]     an int                       *)
(*   [t |-> "float", s |-> <<>>, v |-> n]     a finite float, n tenths     *)
(*   [t |-> "nan",   s |-> <<>>, v |-> 0]     float NaN (a blank cell)     *)
(*   [t |-> "inf",   s |-> <<>>, v |-> +-1]   float +-infinity             *)
(***************************************************************************)
EXTENDS Integers, Sequences, FiniteSets, TLC

(***************************************************************************)
(* Python str primitives                                                   *)
(***************************************************************************)
UpperLetters ==
    <<"A", "B", "C", "D", "E", "G", "I", "K", "L", "M", "N", "O", "P", "R",
      "S", "T", "U", "V", "X", "Y", "Z", "O'", "I'", "A'", "F", "H">>

LowerLetters ==
    <<"a", "b", "c", "d", "e", "g", "i", "k", "l", "m", "n", "o", "p", "r",
      "s", "t", "u", "v", "x", "y", "z", "o'", "i'", "a'", "f", "h">>

\* The characters str.strip() removes; "U+00A0" is the no-break space.
Whitespace == {" ", "\t", "\n", "\r", "U+00A0"}

DigitChars == <<"0", "1", "2", "3", "4", "5", "6", "7", "8", "9">>

PosIn(c, tup) == CHOOSE i \in 1..Len(tup) : tup[i] = c

IsIn(c, tup) == \E i \in 1..Len(tup) : tup[i] = c

\* The cased letters, each with its counterpart of the other case.
UpperToLower ==
    [c \in {UpperLetters[i] : i \in 1..Len(UpperLetters)} |-> LowerLetters[PosIn(c, UpperLetters)]]

LowerToUpper ==
    [c \in {LowerLetters[i] : i \in 1..Len(LowerLetters)} |-> UpperLetters[PosIn(c, LowerLetters)]]

char_lower(c) == IF c \in DOMAIN UpperToLower THEN UpperToLower[c] ELSE c

char_upper(c) == IF c \in DOMAIN LowerToUpper THEN LowerToUpper[c] ELSE c

str_lower(s) == [i \in 1..Len(s) |-> char_lower(s[i])]

str_upper(s) == [i \in 1..Len(s) |-> char_upper(s[i])]

RECURSIVE lstrip(_, _)
lstrip(s, chars) ==
    IF s # <<>> /\ Head(s) \in chars THEN lstrip(Tail(s), chars) ELSE s

RECURSIVE rstrip(_, _)
rstrip(s, chars) ==
    IF s # <<>> /\ s[Len(s)] \in chars THEN rstrip(SubSeq(s, 1, Len(s) - 1), chars) ELSE s

str_strip(s) == rstrip(lstrip(s, Whitespace), Whitespace)

str_strip_chars(s, chars) == rstrip(lstrip(s, chars), chars)

str_endswith(s, suffix) ==
    /\ Len(s) >= Len(suffix)
    /\ SubSeq(s, Len(s) - Len(suffix) + 1, Len(s)) = suffix

\* re.sub(r'[<chars>]+', rep, s): every maximal run of characters of the class
\* becomes one copy of rep.
RECURSIVE re_sub_runs(_, _, _)
re_sub_runs(s, chars, rep) ==
    IF s = <<>> THEN <<>>
    ELSE IF Head(s) \in chars
         THEN rep \o re_sub_runs(lstrip(s, chars), chars, rep)
         ELSE <<Head(s)>> \o re_sub_runs(Tail(s), chars, rep)

\* unicodedata.normalize('NFKD', s) followed by dropping the combining marks.
nfkd_char(c) ==
    CASE c = "o'" -> <<"o", "'">>
      [] c = "O'" -> <<"O", "'">>
      [] c = "i'" -> <<"i", "'">>
      [] c = "I'" -> <<"I", "'">>
      [] c = "a'" -> <<"a", "'">>
      [] c = "A'" -> <<"A", "'">>
      [] c = "U+2122" -> <<"T", "M">>            \* trade mark sign
      [] c = "U+00A0" -> <<" ">>                 \* no-break space
      [] c = "U+2026" -> <<".", ".", ".">>       \* horizontal ellipsis
      [] c = "U+FF0D" -> <<"-">>                 \* fullwidth hyphen-minus
      [] OTHER -> <<c>>

RECURSIVE nfkd(_)
nfkd(s) == IF s = <<>> THEN <<>> ELSE nfkd_char(Head(s)) \o nfkd(Tail(s))

unicodedata_combining(c) == c = "'"

strip_combining(s) == SelectSeq(s, LAMBDA c : ~unicodedata_combining(c))

(***************************************************************************)
(* Python objects in cells, and the conversions the validators apply       *)
(***************************************************************************)
StrCell(s) == [t |-> "str", s |-> s, v |-> 0]

IntCell(n) == [t |-> "int", s |-> <<>>, v |-> n]

FloatCell(tenths) == [t |-> "float", s |-> <<>>, v |-> tenths]

NaN == [t |-> "nan", s |-> <<>>, v |-> 0]

Inf == [t |-> "inf", s |-> <<>>, v |-> 1]

EmptyStr == StrCell(<<>>)

\* bool(x)
truthy(x) ==
    CASE x.t = "str" -> x.s # <<>>
      [] x.t \in {"int", "float"} -> x.v # 0
      [] x.t = "none" -> FALSE
      [] OTHER -> TRUE

\* pd.isna(x) for a scalar
pd_isna(x) == x.t = "nan"

RECURSIVE nat_digits(_)
nat_digits(n) ==
    IF n < 10 THEN <<DigitChars[n + 1]>>
    ELSE nat_digits(n \div 10) \o <<DigitChars[(n % 10) + 1]>>

abs(n) == IF n < 0 THEN -n ELSE n

sign_text(n) == IF n < 0 THEN <<"-">> ELSE <<>>

\* str(x)
py_str(x) ==
    CASE x.t = "str" -> x.s
      [] x.t = "int" -> sign_text(x.v) \o nat_digits(abs(x.v))
      [] x.t = "float" ->
            sign_text(x.v) \o nat_digits(abs(x.v) \div 10) \o <<".">>
                \o nat_digits(abs(x.v) % 10)
      [] x.t = "nan" -> <<"n", "a", "n">>
      [] x.t = "none" -> <<"N", "o", "n", "e">>
      [] OTHER -> sign_text(x.v) \o <<"i", "n", "f">>

IsDigits(s) == s # <<>> /\ \A i \in 1..Len(s) : IsIn(s[i], DigitChars)

RECURSIVE digits_value(_)
digits_value(s) ==
    IF s = <<>> THEN 0
    ELSE 10 * digits_value(SubSeq(s, 1, Len(s) - 1)) + (PosIn(s[Len(s)], DigitChars) - 1)

FloatOk(t, v) == [exc |-> "none", t |-> t, v |-> v]

FloatErr(e) == [exc |-> e, t |-> "nan", v |-> 0]

\* float(text): surrounding whitespace is ignored; "nan", "inf", "-inf" and
\* the decimal literals [-]digits[.digit] are accepted, anything else is a
\* ValueError.
parse_float(text) ==
    LET s   == str_strip(text)
        neg == s # <<>> /\ Head(s) = "-"
        u   == IF neg THEN Tail(s) ELSE s
        sg  == IF neg THEN -1 ELSE 1
        low == str_lower(u)
    IN  IF low = <<"n", "a", "n">> THEN FloatOk("nan", 0)
        ELSE IF low = <<"i", "n", "f">> THEN FloatOk("inf", sg)
        ELSE IF IsDigits(u) THEN FloatOk("float", sg * 10 * digits_value(u))
        ELSE IF /\ Len(u) >= 3
                /\ u[Len(u) - 1] = "."
                /\ IsDigits(SubSeq(u, 1, Len(u) - 2))
                /\ IsIn(u[Len(u)], DigitChars)
             THEN FloatOk("float",
                          sg * (10 * digits_value(SubSeq(u, 1, Len(u) - 2))
                                + digits_value(<<u[Len(u)]>>)))
        ELSE FloatErr("ValueError")

\* float(x)
py_float(x) ==
    CASE x.t = "str" -> parse_float(x.s)
      [] x.t = "int" -> FloatOk("float", 10 * x.v)
      [] OTHER -> FloatOk(x.t, x.v)

\* int(f) for a float f: truncation toward zero; NaN is a ValueError and an
\* infinity an OverflowError.
py_int_of_float(f) ==
    CASE f.t = "nan" -> [exc |-> "ValueError", v |-> 0]
      [] f.t = "inf" -> [exc |-> "OverflowError", v |-> 0]
      [] OTHER -> [exc |-> "none",
                   v |-> IF f.v < 0 THEN -(abs(f.v) \div 10) ELSE f.v \div 10]

\* f < 0 for a float f
float_negative(f) ==
    CASE f.t = "nan" -> FALSE
      [] OTHER -> f.v < 0

(***************************************************************************)
(* Tables (pandas DataFrame), rows as dicts                                *)
(*   DataFrame: [columns |-> <<label, ...>>, rows |-> << <<cell, ...>> >>] *)
(*   dict:      [k |-> <<key, ...>>, v |-> <<value, ...>>] in insertion    *)
(*              order                                                      *)
(***************************************************************************)
NoneVal == [t |-> "none", s |-> <<>>, v |-> 0]

T_codigo == <<"c", "o", "d", "i", "g", "o">>

T_nombre == <<"n", "o", "m", "b", "r", "e">>

T_descripcion == <<"d", "e", "s", "c", "r", "i", "p", "c", "i", "o", "n">>

T_categoria == <<"c", "a", "t", "e", "g", "o", "r", "i", "a">>

T_precio == <<"p", "r", "e", "c", "i", "o">>

T_stock == <<"s", "t", "o", "c", "k">>

T_producto == <<"p", "r", "o", "d", "u", "c", "t", "o">>

T_unitario == <<"u", "n", "i", "t", "a", "r", "i", "o">>

T_inicial == <<"i", "n", "i", "c", "i", "a", "l">>

T_NA == <<"N", "/", "A">>

HasKey(d, key) == \E i \in 1..Len(d.k) : d.k[i] = key

\* d.get(key, default)
dict_get(d, key, default) ==
    IF HasKey(d, key) THEN d.v[CHOOSE i \in 1..Len(d.k) : d.k[i] = key] ELSE default

\* {f(k): v for k, v in d.items()}: a key produced twice keeps its first
\* position and takes the last value.
RECURSIVE dict_put_all(_, _, _)
dict_put_all(acc, ks, vs) ==
    IF ks = <<>> THEN acc
    ELSE LET key == Head(ks)
             nxt == IF HasKey(acc, key)
                    THEN [acc EXCEPT !.v[CHOOSE i \in 1..Len(acc.k) : acc.k[i] = key] = Head(vs)]
                    ELSE [k |-> Append(acc.k, key), v |-> Append(acc.v, Head(vs))]
         IN  dict_put_all(nxt, Tail(ks), Tail(vs))

EmptyDict == [k |-> <<>>, v |-> <<>>]

\* df.to_dict(orient='records')
to_dict_records(df) ==
    [i \in 1..Len(df.rows) |-> dict_put_all(EmptyDict, df.columns, df.rows[i])]

\* df.fillna("")
fillna_empty(df) ==
    [df EXCEPT !.rows = [i \in 1..Len(df.rows) |->
        [j \in 1..Len(df.rows[i]) |->
            IF pd_isna(df.rows[i][j]) THEN EmptyStr ELSE df.rows[i][j]]]]

(***************************************************************************)
(* ICargaMasivaService utilities                                           *)
(***************************************************************************)
safe_upper(value) ==
    IF value.t = "none" \/ pd_isna(value) THEN <<>>
    ELSE str_upper(str_strip(py_str(value)))

\* limpiar_nan applied to a row dict: NaN values become None.
limpiar_nan(d) ==
    [d EXCEPT !.v = [i \in 1..Len(d.v) |-> IF pd_isna(d.v[i]) THEN NoneVal ELSE d.v[i]]]

aplanar_nombre_columna(nombre) ==
    LET a == str_lower(str_strip(nombre))
        b == strip_combining(nfkd(a))
        c == re_sub_runs(b, {" ", ".", "-"}, <<"_">>)
        d == re_sub_runs(c, {"_"}, <<"_">>)
    IN  str_strip_chars(d, {"_"})

\* File contents: [fmt |-> "csv" | "xlsx" | "bad", table |-> DataFrame].  The
\* reader chosen by the file name raises when the bytes are not of its
\* format.
Ext_csv == <<".", "c", "s", "v">>

Ext_xls == <<".", "x", "l", "s">>

Ext_xlsx == <<".", "x", "l", "s", "x">>

ReadOk(df) == [exc |-> "none", df |-> df]

ReadErr(e) == [exc |-> e, df |-> [columns |-> <<>>, rows |-> <<>>]]

pd_read_csv(content) == IF content.fmt = "csv" THEN ReadOk(content.table) ELSE ReadErr("ParserError")

pd_read_excel(content) == IF content.fmt = "xlsx" THEN ReadOk(content.table) ELSE ReadErr("BadZipFile")

\* A reader that tries CSV for every name it does not know as Excel.
leer_archivo_lenient(content, filename) ==
    IF str_endswith(str_lower(filename), Ext_xls) \/ str_endswith(str_lower(filename), Ext_xlsx)
    THEN pd_read_excel(content)
    ELSE pd_read_csv(content)

leer_archivo(content, filename) ==
    LET filename_lower == str_lower(filename)
    IN  IF str_endswith(filename_lower, Ext_csv) THEN pd_read_csv(content)
        ELSE IF str_endswith(filename_lower, Ext_xls) \/ str_endswith(filename_lower, Ext_xlsx)
             THEN pd_read_excel(content)
        ELSE ReadErr("ValueError")

(***************************************************************************)
(* Persistence: the tables and one SQLAlchemy session                      *)
(*   db:   [categorias |-> <<[id, nombre, estado]>>,                       *)
(*          productos  |-> <<[codigo, nombre, descripcion, categoria_id,   *)
(*                            precio, stock, estado]>>]   committed rows   *)
(*   sess: [pending |-> <<producto>>]   rows written and not yet committed *)
(* fault names the database call that fails in this pass, if any.          *)
(***************************************************************************)
\* The commit passes under way in worker processes that share the
\* database, each with its session, its service and its position.
VARIABLE inflight

NewSession == [pending |-> <<>>, active |-> FALSE]

visible_productos(db, sess) == db.productos \o sess.pending

codigos_of(rows) == {rows[i].codigo : i \in 1..Len(rows)}

\* An insert into a table without the unique constraint on codigo.
bulk_insert_mappings_unconstrained(db, sess, mappings, fault) ==
    IF fault = "bulk_insert" THEN [exc |-> "OperationalError", sess |-> [sess EXCEPT !.active = TRUE]]
    ELSE [exc |-> "none", sess |-> [pending |-> sess.pending \o mappings, active |-> TRUE]]

\* Producto.codigo is unique=True: an INSERT of a codigo the table holds, or
\* of the same codigo twice, is an IntegrityError.  A float column takes
\* whatever float it is given, NaN and the infinities included; a database
\* that refuses one of them fails the whole call, as fault = "bulk_insert"
\* does.
bulk_insert_mappings(db, sess, mappings, fault) ==
    IF fault = "bulk_insert" THEN [exc |-> "OperationalError", sess |-> [sess EXCEPT !.active = TRUE]]
    ELSE IF \/ \E i \in 1..Len(mappings) : mappings[i].codigo \in codigos_of(visible_productos(db, sess))
            \/ \E i, j \in 1..Len(mappings) : i # j /\ mappings[i].codigo = mappings[j].codigo
         THEN [exc |-> "IntegrityError", sess |-> [sess EXCEPT !.active = TRUE]]
    ELSE [exc |-> "none", sess |-> [pending |-> sess.pending \o mappings, active |-> TRUE]]

\* A commit that leaves in the table the rows of the session only.
db_commit_replacing(db, sess, fault) ==
    IF ~sess.active THEN [exc |-> "none", db |-> db, sess |-> sess]
    ELSE IF fault = "commit" THEN [exc |-> "OperationalError", db |-> db, sess |-> sess]
    ELSE [exc |-> "none",
          db |-> [db EXCEPT !.productos = IF sess.pending = <<>> THEN @ ELSE sess.pending],
          sess |-> NewSession]

\* A commit that ends the transaction without writing its rows.
db_commit_lost(db, sess, fault) ==
    IF ~sess.active THEN [exc |-> "none", db |-> db, sess |-> sess]
    ELSE IF fault = "commit" THEN [exc |-> "OperationalError", db |-> db, sess |-> sess]
    ELSE [exc |-> "none", db |-> db, sess |-> NewSession]

\* Session.commit(): nothing to do, and nothing to fail, outside a transaction.
db_commit(db, sess, fault) ==
    IF ~sess.active THEN [exc |-> "none", db |-> db, sess |-> sess]
    ELSE IF fault = "commit" THEN [exc |-> "OperationalError", db |-> db, sess |-> sess]
    ELSE [exc |-> "none",
          db |-> [db EXCEPT !.productos = @ \o sess.pending],
          sess |-> NewSession]

db_rollback(sess) == NewSession

(***************************************************************************)
(* CargaMasivaProductoService                                              *)
(***************************************************************************)
NewService ==
    [errores |-> <<>>,
     summary |-> [total_filas |-> 0, creados |-> 0, actualizados |-> 0,
                  omitidos_duplicados |-> 0, con_errores |-> 0],
     categorias_map |-> EmptyDict,
     codigos_existentes |-> {}]

\* A pass that keeps the cache it was constructed with.
precache_data_skipped(svc, db, sess, fault) ==
    [exc |-> "none", svc |-> svc, sess |-> sess]

\* A cache that also holds the keys other sessions have inserted and not
\* yet committed.
precache_data_dirty(svc, db, sess, fault) ==
    [exc |-> "none",
     sess |-> [sess EXCEPT !.active = TRUE],
     svc |-> [svc EXCEPT
         !.categorias_map =
             dict_put_all(EmptyDict,
                          [i \in 1..Len(SelectSeq(db.categorias, LAMBDA c : c.estado = 1)) |->
                              str_upper(SelectSeq(db.categorias, LAMBDA c : c.estado = 1)[i].nombre)],
                          [i \in 1..Len(SelectSeq(db.categorias, LAMBDA c : c.estado = 1)) |->
                              IntCell(SelectSeq(db.categorias, LAMBDA c : c.estado = 1)[i].id)]),
         !.codigos_existentes =
             {db.productos[i].codigo : i \in {j \in 1..Len(db.productos) : db.productos[j].estado = 1}}
             \cup UNION {codigos_of(inflight[q].sess.pending) : q \in DOMAIN inflight}]]

\* A cache built from every category and product, whatever its estado.
precache_data_all(svc, db, sess, fault) ==
    IF fault = "query" THEN [exc |-> "OperationalError", svc |-> svc, sess |-> [sess EXCEPT !.active = TRUE]]
    ELSE [exc |-> "none",
          sess |-> [sess EXCEPT !.active = TRUE],
          svc |-> [svc EXCEPT
              !.categorias_map =
                  dict_put_all(EmptyDict,
                               [i \in 1..Len(db.categorias) |-> str_upper(db.categorias[i].nombre)],
                               [i \in 1..Len(db.categorias) |-> IntCell(db.categorias[i].id)]),
              !.codigos_existentes =
                  {visible_productos(db, sess)[i].codigo : i \in 1..Len(visible_productos(db, sess))}]]

precache_data(svc, db, sess, fault) ==
    IF fault = "query" THEN [exc |-> "OperationalError", svc |-> svc, sess |-> [sess EXCEPT !.active = TRUE]]
    ELSE LET categorias == SelectSeq(db.categorias, LAMBDA c : c.estado = 1)
             productos  == SelectSeq(visible_productos(db, sess), LAMBDA p : p.estado = 1)
         IN  [exc |-> "none",
              sess |-> [sess EXCEPT !.active = TRUE],
              svc |-> [svc EXCEPT
                  !.categorias_map =
                      dict_put_all(EmptyDict,
                                   [i \in 1..Len(categorias) |-> str_upper(categorias[i].nombre)],
                                   [i \in 1..Len(categorias) |-> IntCell(categorias[i].id)]),
                  !.codigos_existentes =
                      {productos[i].codigo : i \in {j \in 1..Len(productos) : productos[j].codigo # <<>>}}]]

get_column_map ==
    [k |-> << <<"C", "O'", "D", "I", "G", "O">>,
              str_upper(T_codigo),
              str_upper(T_nombre),
              str_upper(T_nombre) \o <<" ">> \o str_upper(T_producto),
              <<"D", "E", "S", "C", "R", "I", "P", "C", "I", "O'", "N">>,
              str_upper(T_descripcion),
              <<"C", "A", "T", "E", "G", "O", "R", "I'", "A">>,
              str_upper(T_categoria),
              str_upper(T_precio),
              str_upper(T_precio) \o <<" ">> \o str_upper(T_unitario),
              str_upper(T_stock),
              str_upper(T_stock) \o <<" ">> \o str_upper(T_inicial) >>,
     v |-> << T_codigo, T_codigo, T_nombre, T_nombre, T_descripcion, T_descripcion,
              T_categoria, T_categoria, T_precio, T_precio, T_stock, T_stock >>]

normalizar_columnas(df) ==
    LET column_map == get_column_map
    IN  [df EXCEPT !.columns = [i \in 1..Len(df.columns) |->
            dict_get(column_map, str_upper(str_strip(df.columns[i])),
                     str_lower(str_strip(df.columns[i])))]]

Msg(tpl, arg) == [tpl |-> tpl, arg |-> arg]

\* "; ".join(reasons): the reasons with the separator between neighbours.
Sep == Msg("; ", <<>>)

RECURSIVE join_reasons(_)
join_reasons(reasons) ==
    IF Len(reasons) <= 1 THEN reasons
    ELSE <<Head(reasons), Sep>> \o join_reasons(Tail(reasons))

(***************************************************************************)
(* validar_filas_preview                                                   *)
(***************************************************************************)
preview_codigo(codigo, svc, codigos_en_archivo) ==
    IF codigo = <<>> THEN <<Msg("CODIGO es requerido.", <<>>)>>
    ELSE (IF codigo \in svc.codigos_existentes
          THEN <<Msg("CODIGO '{}' ya existe en la base de datos.", codigo)>> ELSE <<>>)
         \o (IF codigo \in codigos_en_archivo
             THEN <<Msg("CODIGO '{}' esta duplicado en el archivo.", codigo)>> ELSE <<>>)

\* A preview that never records the codes it has seen.
preview_seen_nothing(codigo, codigos_en_archivo) == codigos_en_archivo

preview_seen(codigo, codigos_en_archivo) ==
    IF codigo = <<>> THEN codigos_en_archivo ELSE codigos_en_archivo \cup {codigo}

preview_nombre(nombre) ==
    IF nombre = <<>> THEN <<Msg("NOMBRE es requerido.", <<>>)>> ELSE <<>>

preview_categoria(categoria_nombre, svc) ==
    IF categoria_nombre = <<>> THEN <<Msg("CATEGORIA es requerida.", <<>>)>>
    ELSE IF ~HasKey(svc.categorias_map, categoria_nombre)
         THEN <<Msg("CATEGORIA '{}' no existe en la base de datos.", categoria_nombre)>>
    ELSE <<>>

\* try: precio = float(precio_raw) ... except (ValueError, TypeError)
preview_precio_try(precio) ==
    IF precio.exc \in {"ValueError", "TypeError"}
    THEN <<Msg("PRECIO debe ser un numero valido.", <<>>)>>
    ELSE IF float_negative(precio) THEN <<Msg("PRECIO no puede ser negativo.", <<>>)>>
    ELSE <<>>

preview_precio(precio_raw) ==
    IF truthy(precio_raw) THEN preview_precio_try(py_float(precio_raw)) ELSE <<>>

StockOk(errores) == [exc |-> "none", errores |-> errores]

\* try: stock = int(float(str(stock_raw))) ... except (ValueError, TypeError)
preview_stock_int(stock) ==
    IF stock.exc \in {"ValueError", "TypeError"}
    THEN StockOk(<<Msg("STOCK debe ser un numero entero valido.", <<>>)>>)
    ELSE IF stock.exc # "none" THEN [exc |-> stock.exc, errores |-> <<>>]
    ELSE IF stock.v < 0 THEN StockOk(<<Msg("STOCK no puede ser negativo.", <<>>)>>)
    ELSE StockOk(<<>>)

preview_stock_float(f) ==
    IF f.exc # "none" THEN preview_stock_int([exc |-> f.exc, v |-> 0])
    ELSE preview_stock_int(py_int_of_float(f))

preview_stock(stock_raw) ==
    IF truthy(stock_raw) THEN preview_stock_float(parse_float(py_str(stock_raw))) ELSE StockOk(<<>>)

\* A validation of one row that stops at the first rule that fails.
preview_fila_first(fila, codigo, st, svc, codigos_en_archivo) ==
    [exc |-> st.exc,
     errores_fila |->
        IF preview_codigo(codigo, svc, codigos_en_archivo) # <<>>
        THEN <<Head(preview_codigo(codigo, svc, codigos_en_archivo))>>
        ELSE IF preview_nombre(str_strip(py_str(dict_get(fila, T_nombre, EmptyStr)))) # <<>>
        THEN preview_nombre(str_strip(py_str(dict_get(fila, T_nombre, EmptyStr))))
        ELSE IF preview_categoria(safe_upper(dict_get(fila, T_categoria, EmptyStr)), svc) # <<>>
        THEN preview_categoria(safe_upper(dict_get(fila, T_categoria, EmptyStr)), svc)
        ELSE IF preview_precio(dict_get(fila, T_precio, EmptyStr)) # <<>>
        THEN preview_precio(dict_get(fila, T_precio, EmptyStr))
        ELSE st.errores,
     codigos_en_archivo |-> preview_seen(codigo, codigos_en_archivo)]

\* The validations of one row, given its normalized dict.
preview_fila(fila, codigo, st, svc, codigos_en_archivo) ==
    [exc |-> st.exc,
     errores_fila |-> preview_codigo(codigo, svc, codigos_en_archivo)
                      \o preview_nombre(str_strip(py_str(dict_get(fila, T_nombre, EmptyStr))))
                      \o preview_categoria(safe_upper(dict_get(fila, T_categoria, EmptyStr)), svc)
                      \o preview_precio(dict_get(fila, T_precio, EmptyStr))
                      \o st.errores,
     codigos_en_archivo |-> preview_seen(codigo, codigos_en_archivo)]

preview_normalized(fila, svc, codigos_en_archivo) ==
    preview_fila(fila, safe_upper(dict_get(fila, T_codigo, EmptyStr)),
                 preview_stock(dict_get(fila, T_stock, EmptyStr)), svc, codigos_en_archivo)

\* The body of the loop for one row: the row's reasons, and the codes seen
\* so far.  exc is the exception the body lets escape, if any.
preview_row(row, svc, codigos_en_archivo) ==
    preview_normalized(
        dict_put_all(EmptyDict, [i \in 1..Len(row.k) |-> aplanar_nombre_columna(row.k[i])], row.v),
        svc, codigos_en_archivo)

preview_item(row, idx, errores_fila) ==
    IF errores_fila # <<>>
    THEN [success |-> FALSE, data |-> limpiar_nan(row), fila |-> IntCell(idx),
          error |-> join_reasons(errores_fila)]
    ELSE [success |-> TRUE, data |-> limpiar_nan(row), fila |-> StrCell(<<"-">>),
          error |-> <<>>]

\* for idx, row in enumerate(filas, start=2), from position i on
RECURSIVE preview_loop(_, _, _, _, _)
preview_step(filas, i, svc, resultados, r) ==
    IF r.exc # "none" THEN [exc |-> r.exc, resultados |-> resultados]
    ELSE preview_loop(filas, i + 1, svc, r.codigos_en_archivo,
                      Append(resultados, preview_item(filas[i], i + 1, r.errores_fila)))

preview_loop(filas, i, svc, codigos_en_archivo, resultados) ==
    IF i > Len(filas) THEN [exc |-> "none", resultados |-> resultados]
    ELSE preview_step(filas, i, svc, resultados, preview_row(filas[i], svc, codigos_en_archivo))

preview_return(svc, lp) ==
    IF lp.exc # "none"
    THEN [exc |-> lp.exc, resultados |-> <<>>, tiene_errores |-> FALSE, svc |-> svc]
    ELSE [exc |-> "none", resultados |-> lp.resultados,
          tiene_errores |-> \E k \in 1..Len(lp.resultados) : ~lp.resultados[k].success,
          svc |-> svc]

preview_cached(pc, filas) ==
    IF pc.exc # "none"
    THEN [exc |-> pc.exc, resultados |-> <<>>, tiene_errores |-> FALSE, svc |-> pc.svc]
    ELSE preview_return(pc.svc, preview_loop(filas, 1, pc.svc, {}, <<>>))

validar_filas_preview(svc0, db, sess, filas, fault) ==
    preview_cached(precache_data(svc0, db, sess, fault), filas)

(***************************************************************************)
(* procesar_archivo                                                        *)
(***************************************************************************)
ErrorEntry(fila_numero, error, row) ==
    [fila |-> IntCell(fila_numero), error |-> error, data |-> row,
     keys |-> {"fila", "error", "data"}]

UnexpectedEntry(exc) ==
    [fila |-> StrCell(T_NA), error |-> Msg("Error inesperado: {}", <<exc>>), data |-> EmptyDict,
     keys |-> {"fila", "error"}]

NoProducto ==
    [codigo |-> <<>>, nombre |-> <<>>, descripcion |-> NoneVal, categoria_id |-> 0,
     precio |-> IntCell(0), stock |-> 0, estado |-> 0]

RowError(error, seen) == [kind |-> "error", error |-> error, seen |-> seen, producto |-> NoProducto]

RowRaise(exc, seen) == [kind |-> "raise", error |-> Msg(exc, <<>>), seen |-> seen, producto |-> NoProducto]

float_value(f) == [exc |-> f.exc, val |-> [t |-> f.t, s |-> <<>>, v |-> f.v]]

\* float(row.get("precio", 0)) if row.get("precio") else 0
commit_precio(row) ==
    IF truthy(dict_get(row, T_precio, NoneVal))
    THEN float_value(py_float(dict_get(row, T_precio, IntCell(0))))
    ELSE [exc |-> "none", val |-> IntCell(0)]

int_value(f) ==
    IF f.exc # "none" THEN [exc |-> f.exc, v |-> 0] ELSE py_int_of_float(f)

\* int(float(row.get("stock", 0))) if row.get("stock") else 0
commit_stock(row) ==
    IF truthy(dict_get(row, T_stock, NoneVal))
    THEN int_value(py_float(dict_get(row, T_stock, IntCell(0))))
    ELSE [exc |-> "none", v |-> 0]

\* Step 7 and the mapping appended to productos_a_crear.
commit_step7(stock, producto, seen) ==
    IF stock.exc \in {"ValueError", "TypeError"} THEN RowError(Msg("STOCK invalido.", <<>>), seen)
    ELSE IF stock.exc # "none" THEN RowRaise(stock.exc, seen)
    ELSE IF stock.v < 0 THEN RowError(Msg("STOCK no puede ser negativo.", <<>>), seen)
    ELSE [kind |-> "ok", error |-> Msg("", <<>>), seen |-> seen,
          producto |-> [producto EXCEPT !.stock = stock.v]]

\* Step 6, then step 7.
commit_step6(row, precio, producto, seen) ==
    IF precio.exc \in {"ValueError", "TypeError"} THEN RowError(Msg("PRECIO invalido.", <<>>), seen)
    ELSE IF precio.exc # "none" THEN RowRaise(precio.exc, seen)
    ELSE IF float_negative(precio.val) THEN RowError(Msg("PRECIO no puede ser negativo.", <<>>), seen)
    ELSE commit_step7(commit_stock(row), [producto EXCEPT !.precio = precio.val], seen)

\* A loop that never looks at the codes it has seen.
codigo_en_archivo_unchecked(codigo, codigos_en_archivo) == FALSE

\* if codigo in codigos_en_archivo
codigo_en_archivo(codigo, codigos_en_archivo) == codigo \in codigos_en_archivo

\* Steps 1 to 5 on the extracted fields, then steps 6 and 7.
\* The steps of a row without the look-up of its key in the cache.
commit_steps_no_lookup(row, codigo, nombre, descripcion, categoria_nombre, categoria_id, svc, codigos_en_archivo) ==
    IF codigo = <<>> THEN RowError(Msg("CODIGO es requerido.", <<>>), codigos_en_archivo)
    ELSE IF codigo_en_archivo(codigo, codigos_en_archivo)
         THEN RowError(Msg("CODIGO '{}' duplicado en archivo.", codigo), codigos_en_archivo)
    ELSE IF nombre = <<>>
         THEN RowError(Msg("NOMBRE es requerido.", <<>>), codigos_en_archivo \cup {codigo})
    ELSE IF ~truthy(categoria_id)
         THEN RowError(Msg("CATEGORIA '{}' no existe.", categoria_nombre), codigos_en_archivo \cup {codigo})
    ELSE commit_step6(row, commit_precio(row),
                      [codigo |-> codigo, nombre |-> nombre, descripcion |-> descripcion,
                       categoria_id |-> categoria_id.v, precio |-> IntCell(0), stock |-> 0,
                       estado |-> 1],
                      codigos_en_archivo \cup {codigo})

commit_steps(row, codigo, nombre, descripcion, categoria_nombre, categoria_id, svc, codigos_en_archivo) ==
    IF codigo = <<>> THEN RowError(Msg("CODIGO es requerido.", <<>>), codigos_en_archivo)
    ELSE IF codigo \in svc.codigos_existentes
         THEN RowError(Msg("CODIGO '{}' ya existe en BD.", codigo), codigos_en_archivo)
    ELSE IF codigo_en_archivo(codigo, codigos_en_archivo)
         THEN RowError(Msg("CODIGO '{}' duplicado en archivo.", codigo), codigos_en_archivo)
    ELSE IF nombre = <<>>
         THEN RowError(Msg("NOMBRE es requerido.", <<>>), codigos_en_archivo \cup {codigo})
    ELSE IF ~truthy(categoria_id)
         THEN RowError(Msg("CATEGORIA '{}' no existe.", categoria_nombre), codigos_en_archivo \cup {codigo})
    ELSE commit_step6(row, commit_precio(row),
                      [codigo |-> codigo, nombre |-> nombre, descripcion |-> descripcion,
                       categoria_id |-> categoria_id.v, precio |-> IntCell(0), stock |-> 0,
                       estado |-> 1],
                      codigos_en_archivo \cup {codigo})

or_none(text) == IF text = <<>> THEN NoneVal ELSE StrCell(text)

commit_categoria(row, codigo, nombre, descripcion, categoria_nombre, svc, codigos_en_archivo) ==
    commit_steps(row, codigo, nombre, descripcion, categoria_nombre,
                 dict_get(svc.categorias_map, categoria_nombre, NoneVal), svc, codigos_en_archivo)

\* The body of the loop for one row.
commit_row(row, svc, codigos_en_archivo) ==
    commit_categoria(row,
                     str_upper(str_strip(py_str(dict_get(row, T_codigo, EmptyStr)))),
                     str_strip(py_str(dict_get(row, T_nombre, EmptyStr))),
                     or_none(str_strip(py_str(dict_get(row, T_descripcion, EmptyStr)))),
                     str_upper(str_strip(py_str(dict_get(row, T_categoria, EmptyStr)))),
                     svc, codigos_en_archivo)

\* for index, row in df.iterrows(), from position i on
RECURSIVE commit_loop(_, _, _, _, _, _)
\* A loop that stops at the first rejected row instead of continuing.
commit_step_break(filas, i, svc, errores, productos_a_crear, r) ==
    IF r.kind = "raise"
    THEN [exc |-> r.error.tpl, errores |-> errores, productos_a_crear |-> productos_a_crear]
    ELSE IF r.kind = "error"
    THEN [exc |-> "none", errores |-> Append(errores, ErrorEntry(i + 1, r.error, filas[i])),
          productos_a_crear |-> productos_a_crear]
    ELSE commit_loop(filas, i + 1, svc, r.seen, errores, Append(productos_a_crear, r.producto))

commit_step(filas, i, svc, errores, productos_a_crear, r) ==
    IF r.kind = "raise"
    THEN [exc |-> r.error.tpl, errores |-> errores, productos_a_crear |-> productos_a_crear]
    ELSE commit_loop(filas, i + 1, svc, r.seen,
                     IF r.kind = "error"
                     THEN Append(errores, ErrorEntry(i + 1, r.error, filas[i]))
                     ELSE errores,
                     IF r.kind = "ok"
                     THEN Append(productos_a_crear, r.producto)
                     ELSE productos_a_crear)

commit_loop(filas, i, svc, codigos_en_archivo, errores, productos_a_crear) ==
    IF i > Len(filas)
    THEN [exc |-> "none", errores |-> errores, productos_a_crear |-> productos_a_crear]
    ELSE commit_step(filas, i, svc, errores, productos_a_crear,
                     commit_row(filas[i], svc, codigos_en_archivo))

\* A message that looks at creados first and forgets the errors beside it.
generar_mensaje_created_first(summary) ==
    IF summary.creados > 0
    THEN [tpl |-> "Se crearon {} productos correctamente.", args |-> <<summary.creados>>]
    ELSE IF summary.con_errores > 0
    THEN [tpl |-> "No se pudo cargar ningun producto. {} errores encontrados.",
          args |-> <<summary.con_errores>>]
    ELSE [tpl |-> "No se encontraron datos validos para procesar.", args |-> <<>>]

generar_mensaje(summary) ==
    IF summary.creados > 0 /\ summary.con_errores > 0
    THEN [tpl |-> "Se crearon {} productos. Se encontraron {} errores.",
          args |-> <<summary.creados, summary.con_errores>>]
    ELSE IF summary.creados > 0
    THEN [tpl |-> "Se crearon {} productos correctamente.", args |-> <<summary.creados>>]
    ELSE IF summary.con_errores > 0
    THEN [tpl |-> "No se pudo cargar ningun producto. {} errores encontrados.",
          args |-> <<summary.con_errores>>]
    ELSE [tpl |-> "No se encontraron datos validos para procesar.", args |-> <<>>]

\* df.iterrows(): the rows with the frame's column labels
iterrows(df) == [i \in 1..Len(df.rows) |-> [k |-> df.columns, v |-> df.rows[i]]]

\* The try block, statement by statement, up to the point it completes or
\* raises.  stage names that point: "precache", "read", "loop",
\* "bulk_insert", "commit" or "done".
Tried(stage, exc, svc, db, sess, productos_a_crear, bulk_calls) ==
    [stage |-> stage, exc |-> exc, svc |-> svc, db |-> db, sess |-> sess,
     productos_a_crear |-> productos_a_crear, bulk_calls |-> bulk_calls]

\* self.db.commit()
try_commit(svc, productos_a_crear, bulk_calls, db, cm) ==
    IF cm.exc # "none"
    THEN Tried("commit", cm.exc, svc, db, cm.sess, productos_a_crear, bulk_calls)
    ELSE Tried("done", "none", svc, cm.db, cm.sess, productos_a_crear, bulk_calls)

\* self.db.bulk_insert_mappings(Producto, productos_a_crear);
\* self.summary["creados"] = len(productos_a_crear)
try_bulk(svc, productos_a_crear, db, bi, fault) ==
    IF bi.exc # "none"
    THEN Tried("bulk_insert", bi.exc, svc, db, bi.sess, productos_a_crear, <<productos_a_crear>>)
    ELSE try_commit([svc EXCEPT !.summary.creados = Len(productos_a_crear)],
                    productos_a_crear, <<productos_a_crear>>, db, db_commit(db, bi.sess, fault))

\* An insertion step that calls the bulk insert whatever the list holds.
try_insert_always(svc, lp, db, sess, fault) ==
    IF lp.exc # "none" THEN Tried("loop", lp.exc, svc, db, sess, lp.productos_a_crear, <<>>)
    ELSE try_bulk(svc, lp.productos_a_crear, db,
                  bulk_insert_mappings(db, sess, lp.productos_a_crear, fault), fault)

\* if productos_a_crear: ...
try_insert(svc, lp, db, sess, fault) ==
    IF lp.exc # "none" THEN Tried("loop", lp.exc, svc, db, sess, lp.productos_a_crear, <<>>)
    ELSE IF lp.productos_a_crear # <<>>
    THEN try_bulk(svc, lp.productos_a_crear, db,
                  bulk_insert_mappings(db, sess, lp.productos_a_crear, fault), fault)
    ELSE try_commit(svc, <<>>, <<>>, db, db_commit(db, sess, fault))

with_errores(svc, lp) == [svc EXCEPT !.errores = lp.errores]

try_rows(svc, lp, db, sess, fault) == try_insert(with_errores(svc, lp), lp, db, sess, fault)

\* self.summary["total_filas"] = len(df), then the loop
try_loop(svc, df, db, sess, fault) ==
    try_rows([svc EXCEPT !.summary.total_filas = Len(df.rows)],
             commit_loop(iterrows(df), 1, svc, {}, svc.errores, <<>>),
             db, sess, fault)

\* df = self.leer_archivo(content, filename); _normalizar_columnas; fillna
try_read(pc, rd, db, fault) ==
    IF rd.exc # "none" THEN Tried("read", rd.exc, pc.svc, db, pc.sess, <<>>, <<>>)
    ELSE try_loop(pc.svc, fillna_empty(normalizar_columnas(rd.df)), db, pc.sess, fault)

\* self._precache_data()
try_precache(pc, db, content, filename, fault) ==
    IF pc.exc # "none" THEN Tried("precache", pc.exc, pc.svc, db, pc.sess, <<>>, <<>>)
    ELSE try_read(pc, leer_archivo(content, filename), db, fault)

procesar_try(svc0, db, sess0, content, filename, fault) ==
    try_precache(precache_data(svc0, db, sess0, fault), db, content, filename, fault)

\* A handler as narrow as the ones around the numeric conversions.
ExceptionClasses_conversion == {"ValueError", "TypeError"}

\* The exception classes that occur; each derives from Exception.
ExceptionClasses ==
    {"ValueError", "TypeError", "OverflowError", "KeyError", "OperationalError",
     "IntegrityError", "ParserError", "BadZipFile", "FileNotFoundError", "HTTPException"}

\* A handler that rolls back and records nothing.
procesar_except_silent(t) ==
    IF t.exc = "none" THEN [t |-> t, raised |-> "none"]
    ELSE [t |-> [t EXCEPT !.sess = db_rollback(t.sess)], raised |-> "none"]

\* except Exception as e: rollback and one 'N/A' entry.  raised is what the
\* handler lets through.
procesar_except(t) ==
    IF t.exc = "none" THEN [t |-> t, raised |-> "none"]
    ELSE IF t.exc \in ExceptionClasses
    THEN [t |-> [t EXCEPT !.sess = db_rollback(t.sess),
                          !.svc.errores = Append(@, UnexpectedEntry(t.exc))],
          raised |-> "none"]
    ELSE [t |-> t, raised |-> t.exc]

NoReturn ==
    [summary |-> NewService.summary, errors |-> <<>>, message |-> [tpl |-> "", args |-> <<>>]]

\* self.summary["con_errores"] = len(self.errores) and the returned dict.
procesar_return(t, svc) ==
    [raised |-> "none", returned |-> TRUE,
     ret |-> [summary |-> svc.summary, errors |-> svc.errores,
              message |-> generar_mensaje(svc.summary)],
     db |-> t.db, sess |-> t.sess, svc |-> svc,
     stage |-> t.stage, exc |-> t.exc,
     productos_a_crear |-> t.productos_a_crear, bulk_calls |-> t.bulk_calls]

procesar_end(h) ==
    IF h.raised # "none"
    THEN [raised |-> h.raised, returned |-> FALSE, ret |-> NoReturn,
          db |-> h.t.db, sess |-> h.t.sess, svc |-> h.t.svc,
          stage |-> h.t.stage, exc |-> h.t.exc,
          productos_a_crear |-> h.t.productos_a_crear, bulk_calls |-> h.t.bulk_calls]
    ELSE procesar_return(h.t, [h.t.svc EXCEPT !.summary.con_errores = Len(h.t.svc.errores)])

\* What procesar_archivo returns (ret; returned says whether it returned),
\* what it leaves behind (db, sess, svc) and what it did on the way (stage,
\* exc, productos_a_crear, bulk_calls).
procesar_archivo(svc0, db, sess0, content, filename, fault) ==
    procesar_end(procesar_except(procesar_try(svc0, db, sess0, content, filename, fault)))

(***************************************************************************)
(* Storage (LocalStorageService) and the router                            *)
(*   storage: a set of [path |-> <<prefix, carga_id, filename>>,           *)
(*                      bytes |-> contents]                                *)
(***************************************************************************)
\* The backend of the module-level storage_service instance: "local",
\* "firebase" or "s3", as configured.
VARIABLE storage_service

TipoEntidad == {"productos", "proveedores"}

SERVICIOS_MAP == {"productos"}

STORAGE_PATH_MAP == [t \in {"productos"} |-> "uploads/productos"]

NoBytes == [fmt |-> "bad", table |-> [columns |-> <<>>, rows |-> <<>>]]

storage_exists(storage, path) == \E f \in storage : f.path = path

storage_upload(storage, file_bytes, path) ==
    {f \in storage : f.path # path} \cup {[path |-> path, bytes |-> file_bytes]}

\* A download that answers with the object's format but none of its rows.
storage_download_truncated(storage, path, fault) ==
    IF ~storage_exists(storage, path) THEN [exc |-> "FileNotFoundError", bytes |-> NoBytes]
    ELSE [exc |-> "none",
          bytes |-> [fmt |-> (CHOOSE f \in storage : f.path = path).bytes.fmt,
                     table |-> [columns |-> <<>>, rows |-> <<>>]]]

\* storage_service.download(path), for the configured backend.  fault =
\* "download" is a failure of the backend other than a missing object (an
\* unreadable file, an unreachable or refusing service).
\*   local:    exists() is asked first; then open() may fail
\*   firebase: blob.exists() or the download may fail; FileNotFoundError
\*             only when exists() answers no
\*   s3:       every exception of get_object becomes FileNotFoundError
storage_download(storage, path, fault) ==
    CASE storage_service = "local" ->
            IF ~storage_exists(storage, path) THEN [exc |-> "FileNotFoundError", bytes |-> NoBytes]
            ELSE IF fault = "download" THEN [exc |-> "PermissionError", bytes |-> NoBytes]
            ELSE [exc |-> "none", bytes |-> (CHOOSE f \in storage : f.path = path).bytes]
      [] storage_service = "firebase" ->
            IF fault = "download" THEN [exc |-> "GoogleAPIError", bytes |-> NoBytes]
            ELSE IF ~storage_exists(storage, path) THEN [exc |-> "FileNotFoundError", bytes |-> NoBytes]
            ELSE [exc |-> "none", bytes |-> (CHOOSE f \in storage : f.path = path).bytes]
      [] storage_service = "s3" ->
            IF fault = "download" \/ ~storage_exists(storage, path)
            THEN [exc |-> "FileNotFoundError", bytes |-> NoBytes]
            ELSE [exc |-> "none", bytes |-> (CHOOSE f \in storage : f.path = path).bytes]

\* get_db: the session is closed when the request ends; what it had not
\* committed is discarded.
get_db_close(db, sess) == db

NoPass == [kind |-> "none"]

RequestOf(tipo_entidad, carga_id, filename) ==
    [tipo_entidad |-> tipo_entidad, carga_id |-> carga_id, filename |-> filename]

HttpError(op, args, code, detail, pass) ==
    [op |-> op, args |-> args, code |-> code, detail |-> detail, pass |-> pass]

supported_name(filename_lower) ==
    \/ str_endswith(filename_lower, Ext_csv)
    \/ str_endswith(filename_lower, Ext_xls)
    \/ str_endswith(filename_lower, Ext_xlsx)

\* The "data" of the upload response is an object (data_object); that of the
\* other two responses is a list (data).
upload_archivo(storage, tipo_entidad, filename, file_bytes, carga_id) ==
    IF ~supported_name(str_lower(filename))
    THEN [resp |-> HttpError("upload", RequestOf(tipo_entidad, carga_id, filename), 400,
                             "Formato no soportado. Use CSV, XLS o XLSX.", NoPass),
          storage |-> storage]
    ELSE IF tipo_entidad \notin DOMAIN STORAGE_PATH_MAP
    THEN [resp |-> HttpError("upload", RequestOf(tipo_entidad, carga_id, filename), 500,
                             "Error subiendo archivo: KeyError", NoPass),
          storage |-> storage]
    ELSE [resp |-> [op |-> "upload", args |-> RequestOf(tipo_entidad, carga_id, filename),
                    code |-> 200, detail |-> "Archivo subido exitosamente.", pass |-> NoPass,
                    data_object |-> [carga_id |-> carga_id,
                                     storage_path |-> <<STORAGE_PATH_MAP[tipo_entidad], carga_id, filename>>,
                                     filename |-> filename]],
          storage |-> storage_upload(storage, file_bytes,
                                     <<STORAGE_PATH_MAP[tipo_entidad], carga_id, filename>>)]

\* df.columns = [re.sub(r'[ .-]+', '_', col.strip().lower()) for col in df.columns]
render_columns(df) ==
    [df EXCEPT !.columns = [i \in 1..Len(df.columns) |->
        re_sub_runs(str_lower(str_strip(df.columns[i])), {" ", ".", "-"}, <<"_">>)]]

render_parse(file_bytes, filename) ==
    IF str_endswith(str_lower(filename), Ext_csv) THEN pd_read_csv(file_bytes)
    ELSE pd_read_excel(file_bytes)

Handled(resp, db, storage) == [resp |-> resp, db |-> db, storage |-> storage]

PreviewPassOf(all_rows, v) ==
    [kind |-> "preview", exc |-> v.exc, filas |-> all_rows, resultados |-> v.resultados,
     svc |-> v.svc]

\* A preview that removes the staged artifact once it has read it.
render_respond_consuming(args, db, storage, sess, all_rows, v) ==
    Handled([op |-> "render", args |-> args, code |-> 200,
             detail |-> "Validacion completada.", pass |-> PreviewPassOf(all_rows, v),
             data |-> v.resultados, tiene_errores |-> v.tiene_errores,
             numero_filas |-> Len(all_rows)],
            get_db_close(db, sess),
            {f \in storage : f.path # <<STORAGE_PATH_MAP[args.tipo_entidad], args.carga_id, args.filename>>})

\* resultados, tiene_errores = service.validar_filas_preview(all_rows)
render_respond(args, db, storage, sess, all_rows, v) ==
    IF v.exc # "none"
    THEN Handled(HttpError("render", args, 500, "Error validando archivo: {}",
                           PreviewPassOf(all_rows, v)),
                 get_db_close(db, sess), storage)
    ELSE Handled([op |-> "render", args |-> args, code |-> 200,
                  detail |-> "Validacion completada.", pass |-> PreviewPassOf(all_rows, v),
                  data |-> v.resultados, tiene_errores |-> v.tiene_errores,
                  numero_filas |-> Len(all_rows)],
                 get_db_close(db, sess), storage)

render_validate(args, db, storage, sess, all_rows, fault) ==
    render_respond(args, db, storage, sess, all_rows,
                   validar_filas_preview(NewService, db, sess, all_rows, fault))

render_frame(args, db, storage, sess, df, fault) ==
    IF df.rows = <<>> \/ df.columns = <<>>
    THEN Handled(HttpError("render", args, 400, "El archivo esta vacio.", NoPass),
                 get_db_close(db, sess), storage)
    ELSE IF args.tipo_entidad \notin SERVICIOS_MAP
    THEN Handled(HttpError("render", args, 400, "Tipo de entidad '{}' no valido.", NoPass),
                 get_db_close(db, sess), storage)
    ELSE render_validate(args, db, storage, sess, to_dict_records(df), fault)

render_parsed(args, db, storage, sess, rd, fault) ==
    IF rd.exc # "none"
    THEN Handled(HttpError("render", args, 500, "Error validando archivo: {}", NoPass),
                 get_db_close(db, sess), storage)
    ELSE render_frame(args, db, storage, sess, render_columns(rd.df), fault)

render_downloaded(args, db, storage, sess, dl, fault) ==
    IF dl.exc = "FileNotFoundError"
    THEN Handled(HttpError("render", args, 404,
                           "Archivo no encontrado en storage. Verifique el carga_id.", NoPass),
                 get_db_close(db, sess), storage)
    ELSE IF dl.exc # "none"
    THEN Handled(HttpError("render", args, 500, "Error validando archivo: {}", NoPass),
                 get_db_close(db, sess), storage)
    ELSE render_parsed(args, db, storage, sess, render_parse(dl.bytes, args.filename), fault)

render_preview(db, storage, tipo_entidad, carga_id, filename, fault) ==
    IF tipo_entidad \notin DOMAIN STORAGE_PATH_MAP
    THEN Handled(HttpError("render", RequestOf(tipo_entidad, carga_id, filename), 500,
                           "Error validando archivo: KeyError", NoPass),
                 get_db_close(db, NewSession), storage)
    ELSE render_downloaded(RequestOf(tipo_entidad, carga_id, filename), db, storage, NewSession,
                           storage_download(storage, <<STORAGE_PATH_MAP[tipo_entidad], carga_id, filename>>, fault),
                           fault)

CommitPassOf(r) == [kind |-> "commit"] @@ r

\* resultado = service.procesar_archivo(file_bytes, filename); db.commit()
commit_committed(args, storage, r, cm) ==
    IF cm.exc # "none"
    THEN Handled(HttpError("commit", args, 500, "Error procesando archivo: {}", CommitPassOf(r)),
                 get_db_close(cm.db, db_rollback(cm.sess)), storage)
    ELSE Handled([op |-> "commit", args |-> args, code |-> 200,
                  detail |-> "Archivo procesado y datos guardados exitosamente.",
                  pass |-> CommitPassOf(r), data |-> <<r.ret>>],
                 get_db_close(cm.db, cm.sess), storage)

commit_processed(args, storage, r, fault) ==
    IF r.raised # "none"
    THEN Handled(HttpError("commit", args, 500, "Error procesando archivo: {}", CommitPassOf(r)),
                 get_db_close(r.db, db_rollback(r.sess)), storage)
    ELSE commit_committed(args, storage, r, db_commit(r.db, r.sess, fault))

commit_downloaded(args, db, storage, sess, dl, fault) ==
    IF dl.exc = "FileNotFoundError"
    THEN Handled(HttpError("commit", args, 404,
                           "Archivo no encontrado en storage. Verifique el carga_id.", NoPass),
                 get_db_close(db, sess), storage)
    ELSE IF dl.exc # "none"
    THEN Handled(HttpError("commit", args, 500, "Error procesando archivo: {}", NoPass),
                 get_db_close(db, db_rollback(sess)), storage)
    ELSE IF args.tipo_entidad \notin SERVICIOS_MAP
    THEN Handled(HttpError("commit", args, 400, "Tipo de entidad '{}' no valido.", NoPass),
                 get_db_close(db, sess), storage)
    ELSE commit_processed(args, storage,
                          procesar_archivo(NewService, db, sess, dl.bytes, args.filename, fault),
                          fault)

commit_datos(db, storage, tipo_entidad, carga_id, filename, fault) ==
    IF tipo_entidad \notin DOMAIN STORAGE_PATH_MAP
    THEN Handled(HttpError("commit", RequestOf(tipo_entidad, carga_id, filename), 500,
                           "Error procesando archivo: KeyError", NoPass),
                 get_db_close(db, db_rollback(NewSession)), storage)
    ELSE commit_downloaded(RequestOf(tipo_entidad, carga_id, filename), db, storage, NewSession,
                           storage_download(storage, <<STORAGE_PATH_MAP[tipo_entidad], carga_id, filename>>, fault),
                           fault)

(***************************************************************************)
(* Inputs                                                                  *)
(***************************************************************************)
MaxRows == 2

FullColumns == <<T_codigo, T_nombre, T_categoria, T_precio, T_stock>>

RequiredColumns == <<T_codigo, T_nombre, T_categoria>>

Row(codigo, nombre, categoria, precio, stock) == <<codigo, nombre, categoria, precio, stock>>

C_a == StrCell(<<"a">>)

C_A_padded == StrCell(<<" ", "A">>)

C_b == StrCell(<<"b">>)

C_n == StrCell(<<"n">>)

C_ro == StrCell(<<"r", "o">>)

\* Data rows as pandas parses them, in the order of FullColumns; a blank
\* cell is NaN.
WorkflowRows ==
    { Row(C_a, C_n, C_ro, IntCell(100), IntCell(10)),
      Row(C_A_padded, C_n, StrCell(<<"R", "O">>), NaN, NaN),
      Row(C_b, C_n, C_ro, StrCell(<<"2", ".", "5">>), StrCell(<<"5", ".", "0">>)),
      Row(C_b, C_n, C_ro, IntCell(0), Inf) }

RowSet ==
    WorkflowRows \cup
    { Row(C_b, NaN, C_ro, IntCell(100), FloatCell(57)),
      Row(C_b, C_n, StrCell(<<"z", "z">>), IntCell(100), IntCell(10)),
      Row(C_b, C_n, StrCell(<<"h", "o">>), IntCell(100), IntCell(10)),
      Row(C_b, C_n, NaN, IntCell(100), IntCell(10)),
      Row(C_b, C_n, C_ro, FloatCell(-500), IntCell(10)),
      Row(C_b, C_n, C_ro, StrCell(<<"a", "b", "c">>), IntCell(10)),
      Row(C_b, C_n, C_ro, IntCell(100), IntCell(-3)),
      Row(C_b, C_n, C_ro, IntCell(100), StrCell(<<"x">>)),
      Row(C_b, C_n, C_ro, StrCell(<<"N", "A", "N">>), IntCell(10)),
      Row(NaN, StrCell(<<" ">>), NaN, StrCell(<<"a", "b", "c">>), StrCell(<<"-", "3">>)) }

RowSeqs(rows) == UNION {[1..n -> rows] : n \in 0..MaxRows}

\* A table with every column, or with the optional columns absent.
TablesOf(rows) ==
    {[columns |-> FullColumns, rows |-> rs] : rs \in RowSeqs(rows)}
    \cup {[columns |-> RequiredColumns,
           rows |-> [i \in 1..Len(rs) |-> SubSeq(rs[i], 1, 3)]] : rs \in RowSeqs(WorkflowRows)}

Categorias0 ==
    << [id |-> 1, nombre |-> <<"R", "o">>, estado |-> 1],
       [id |-> 2, nombre |-> <<"H", "O">>, estado |-> 0] >>

Producto0(codigo, estado) ==
    [codigo |-> codigo, nombre |-> <<"n">>, descripcion |-> NoneVal, categoria_id |-> 1,
     precio |-> FloatCell(10), stock |-> 1, estado |-> estado]

\* The products table before the first request: empty; one active product;
\* one inactive product.
Productos0 == { <<>>, <<Producto0(<<"A">>, 1)>>, <<Producto0(<<"B">>, 0)>> }

Databases0 == {[categorias |-> Categorias0, productos |-> ps] : ps \in Productos0}

F_csv == <<"f">> \o Ext_csv

F_XLSX == <<"F">> \o str_upper(Ext_xlsx)

F_txt == <<"f", ".", "t", "x", "t">>

F_CSV == str_upper(F_csv)

\* A name that ends in the letters of an extension without its period.
F_noext == <<"f", "c", "s", "v">>

\* What a client uploads: a file name and the format of the bytes.
UploadKinds ==
    { [filename |-> F_csv, fmt |-> "csv"],
      [filename |-> F_XLSX, fmt |-> "xlsx"],
      [filename |-> F_csv, fmt |-> "bad"],
      [filename |-> F_txt, fmt |-> "csv"] }

UUIDs == {"u1"}

Faults == {"none", "query", "bulk_insert", "commit"}

(***************************************************************************)
(* State                                                                   *)
(*   file     the table the client works with                              *)
(*   db       the committed tables                                         *)
(*   storage  the staged artifacts                                         *)
(*   uuids    the carga_ids issued so far                                  *)
(*   resp     the last request and what it returned                        *)
(***************************************************************************)
VARIABLES file, db, storage, uuids, resp

vars == <<file, db, storage, storage_service, uuids, resp, inflight>>

NoRequest == [op |-> "none", args |-> RequestOf("", "", <<>>), code |-> 0, detail |-> "", pass |-> NoPass]

\* The (tipo_entidad, carga_id, filename) a client may send: those of the
\* staged artifacts, one that was never staged, and one of the other entity.
RequestArgs ==
    {[tipo_entidad |-> "productos", carga_id |-> f.path[2], filename |-> f.path[3]] : f \in storage}
    \cup {[tipo_entidad |-> "productos", carga_id |-> "u0", filename |-> F_csv],
          [tipo_entidad |-> "proveedores", carga_id |-> "u0", filename |-> F_csv]}

Uploaded(r, carga_id) ==
    /\ resp' = r.resp
    /\ storage' = r.storage
    /\ uuids' = IF r.resp.code = 200 THEN uuids \cup {carga_id} ELSE uuids
    /\ UNCHANGED <<file, db, storage_service, inflight>>

Upload ==
    \E tipo \in TipoEntidad, kind \in UploadKinds, carga_id \in UUIDs \ uuids :
        Uploaded(upload_archivo(storage, tipo, kind.filename,
                                [fmt |-> kind.fmt, table |-> file], carga_id),
                 carga_id)

Responded(r) ==
    /\ resp' = r.resp
    /\ db' = r.db
    /\ storage' = r.storage
    /\ UNCHANGED <<file, storage_service, uuids, inflight>>

\* A render request, with one of `faults` striking it.
RenderWith(faults) ==
    \E a \in RequestArgs, fault \in faults :
        Responded(render_preview(db, storage, a.tipo_entidad, a.carga_id, a.filename, fault))

Render == RenderWith({"none", "query"})

\* A commit request, with one of `faults` striking it.
CommitWith(faults) ==
    \E a \in RequestArgs, fault \in faults :
        Responded(commit_datos(db, storage, a.tipo_entidad, a.carga_id, a.filename, fault))

Commit == CommitWith(Faults)

Returned(r, filename) ==
    /\ resp' = [op |-> "procesar", args |-> RequestOf("productos", "", filename),
                code |-> 0, detail |-> "", pass |-> CommitPassOf(r)]
    /\ db' = get_db_close(r.db, r.sess)
    /\ UNCHANGED <<file, storage, storage_service, uuids, inflight>>

\* A caller other than the router: procesar_archivo on a service and a
\* session of its own, with the file name it chooses.
Procesar ==
    \E filename \in {F_csv, F_CSV, F_txt, F_noext}, fault \in Faults :
        Returned(procesar_archivo(NewService, db, NewSession, [fmt |-> "csv", table |-> file],
                                  filename, fault),
                 filename)

(***************************************************************************)
(* Spec: the three phases, any number of requests in any order             *)
(***************************************************************************)
Init ==
    /\ file \in TablesOf(WorkflowRows)
    /\ db \in Databases0
    /\ storage = {}
    /\ storage_service = "local"
    /\ inflight = <<>>
    /\ uuids = {}
    /\ resp = NoRequest

Next == Upload \/ Render \/ Commit

Spec == Init /\ [][Next]_vars

(***************************************************************************)
(* SpecPass: one pass over one file.  The file is staged, as a good CSV    *)
(* under "u1" and as bytes no reader accepts under "u2", and the first     *)
(* request is a preview or a commit of it.                                 *)
(***************************************************************************)
Staged(carga_id, fmt, table) ==
    [path |-> <<STORAGE_PATH_MAP["productos"], carga_id, F_csv>>,
     bytes |-> [fmt |-> fmt, table |-> table]]

InitPass ==
    /\ file \in TablesOf(RowSet)
    /\ db \in Databases0
    /\ storage = {Staged("u1", "csv", file), Staged("u2", "bad", file)}
    /\ storage_service = "local"
    /\ inflight = <<>>
    /\ uuids = {"u1", "u2"}
    /\ resp = NoRequest

RenderPass == resp.op = "none" /\ Render

CommitPass == resp.op = "none" /\ Commit

ProcesarPass == resp.op = "none" /\ Procesar

NextPass == RenderPass \/ CommitPass \/ ProcesarPass

SpecPass == InitPass /\ [][NextPass]_vars

(***************************************************************************)
(* SpecStorage: one request against each storage backend, the artifact     *)
(* staged under "u1", with and without a failure of the backend.           *)
(***************************************************************************)
StorageServices == {"local", "firebase", "s3"}

InitStorage ==
    /\ file \in TablesOf(WorkflowRows)
    /\ db \in Databases0
    /\ storage = {Staged("u1", "csv", file)}
    /\ storage_service \in StorageServices
    /\ inflight = <<>>
    /\ uuids = {"u1"}
    /\ resp = NoRequest

RenderStorage == resp.op = "none" /\ RenderWith({"none", "query", "download"})

CommitStorage == resp.op = "none" /\ CommitWith({"none", "commit", "download"})

NextStorage == RenderStorage \/ CommitStorage

SpecStorage == InitStorage /\ [][NextStorage]_vars

(***************************************************************************)
(* SpecHeader: the two column normalizations applied to one header, the    *)
(* header being the only column of `file`.                                 *)
(***************************************************************************)
MaxHeaderLen == 3

HeaderChars == {"a", "A", "o'", "_", " ", "\t", ".", "-", "U+2122", "U+00A0", "U+2026", "U+FF0D"}

\* Headers the override map knows, as a file may spell them.
MappedHeaders ==
    { <<" ">> \o T_codigo,
      <<"C", "o'", "d", "i", "g", "o">>,
      str_upper(T_nombre) \o <<" ">> \o T_producto \o <<"\t">>,
      T_stock \o <<" ">> \o T_inicial }

\* Headers of several words the override map does not know.
WordHeaders ==
    { T_precio \o <<".">> \o T_unitario,
      T_codigo \o <<"_">> \o T_producto,
      <<"N", "o'", "m", "b", "r", "e", " ", "-", " ">> \o T_producto }

Headers ==
    UNION {[1..n -> HeaderChars] : n \in 0..MaxHeaderLen} \cup MappedHeaders \cup WordHeaders

HeaderResult(op, input, output) ==
    [op |-> op, args |-> RequestOf("", "", input), code |-> 0, detail |-> "", pass |-> NoPass,
     data |-> <<output>>]

InitHeader ==
    /\ file \in {[columns |-> <<h>>, rows |-> <<>>] : h \in Headers}
    /\ db = [categorias |-> Categorias0, productos |-> <<>>]
    /\ storage = {}
    /\ storage_service = "local"
    /\ inflight = <<>>
    /\ uuids = {}
    /\ resp = NoRequest

\* aplanar_nombre_columna(header)
Aplanar ==
    /\ resp.op = "none"
    /\ resp' = HeaderResult("aplanar_nombre_columna", file.columns[1],
                            aplanar_nombre_columna(file.columns[1]))
    /\ UNCHANGED <<file, db, storage, storage_service, uuids, inflight>>

\* aplanar_nombre_columna applied to a name it returned.
Reaplanar ==
    /\ resp.op = "aplanar_nombre_columna"
    /\ resp' = HeaderResult("aplanar_nombre_columna again", resp.data[1],
                            aplanar_nombre_columna(resp.data[1]))
    /\ UNCHANGED <<file, db, storage, storage_service, uuids, inflight>>

\* _normalizar_columnas(df) for the frame of the one header.
NormalizarColumnas ==
    /\ resp.op = "none"
    /\ resp' = HeaderResult("_normalizar_columnas", file.columns[1],
                            normalizar_columnas(file).columns[1])
    /\ UNCHANGED <<file, db, storage, storage_service, uuids, inflight>>

\* The name under which the preview looks a column up: the router's
\* df.columns line, then aplanar_nombre_columna in validar_filas_preview.
PreviewColumna ==
    /\ resp.op = "none"
    /\ resp' = HeaderResult("preview column", file.columns[1],
                            aplanar_nombre_columna(render_columns(file).columns[1]))
    /\ UNCHANGED <<file, db, storage, storage_service, uuids, inflight>>

NextHeader == Aplanar \/ Reaplanar \/ NormalizarColumnas \/ PreviewColumna

SpecHeader == InitHeader /\ [][NextHeader]_vars

(***************************************************************************)
(* SpecConc: two commit passes in two worker processes on one database.    *)
(* A pass reads the committed rows when it builds its cache, validates in  *)
(* memory, inserts inside its own transaction and commits.  An insert of a *)
(* key another transaction has inserted and not committed waits for that   *)
(* transaction to end (row-level locking), or fails with OperationalError  *)
(* while another transaction holds writes (a database-level write lock, as *)
(* with the default sqlite URL).                                           *)
(***************************************************************************)
Workers == {1, 2}

ConcRows ==
    { Row(C_a, C_n, C_ro, IntCell(100), IntCell(10)),
      Row(C_b, C_n, C_ro, StrCell(<<"2", ".", "5">>), StrCell(<<"5", ".", "0">>)) }

ConcTables == {[columns |-> FullColumns, rows |-> rs] : rs \in RowSeqs(ConcRows)}

Worker0(content) ==
    [pc |-> "start", content |-> content, svc |-> NewService, sess |-> NewSession,
     productos_a_crear |-> <<>>, bulk_calls |-> <<>>, exc |-> "none", returned |-> FALSE,
     ret |-> NoReturn]

InitConc ==
    /\ file \in ConcTables
    /\ db \in Databases0
    /\ storage = {}
    /\ storage_service = "local"
    /\ uuids = {}
    /\ resp = NoRequest
    /\ inflight \in {<<Worker0(file), Worker0(t)>> : t \in ConcTables}

\* The worker after self._precache_data() and the loop over the rows.
conc_validated(w, pc, lp) ==
    [w EXCEPT !.pc = "validated",
              !.svc = with_errores([pc.svc EXCEPT !.summary.total_filas = Len(w.content.rows)], lp),
              !.sess = pc.sess,
              !.productos_a_crear = lp.productos_a_crear]

conc_cached(w, pc) ==
    conc_validated(w, pc,
                   commit_loop(iterrows(fillna_empty(normalizar_columnas(w.content))), 1, pc.svc,
                               {}, pc.svc.errores, <<>>))

\* procesar_archivo from its start to the end of the loop.
Validate(p) ==
    /\ inflight[p].pc = "start"
    /\ inflight' = [inflight EXCEPT ![p] = conc_cached(@, precache_data(NewService, db, NewSession, "none"))]
    /\ UNCHANGED <<file, db, storage, storage_service, uuids, resp>>

\* The worker after its except block, its con_errores line and its return.
conc_returned(w, bulk_calls, e) ==
    [w EXCEPT !.pc = "done", !.svc = e.svc, !.sess = e.sess, !.exc = e.exc, !.ret = e.ret,
              !.returned = e.returned, !.bulk_calls = bulk_calls]

conc_inserted(w, bi) ==
    IF bi.exc # "none"
    THEN conc_returned(w, <<w.productos_a_crear>>,
                       procesar_end(procesar_except(
                           Tried("bulk_insert", bi.exc, w.svc, db, bi.sess, w.productos_a_crear,
                                 <<w.productos_a_crear>>))))
    ELSE [w EXCEPT !.pc = "inserted", !.sess = bi.sess,
                   !.svc.summary.creados = Len(w.productos_a_crear),
                   !.bulk_calls = <<w.productos_a_crear>>]

\* The keys other workers have inserted and not committed.
PendingOfOthers(p) == UNION {codigos_of(inflight[q].sess.pending) : q \in Workers \ {p}}

\* if productos_a_crear: self.db.bulk_insert_mappings(...)
Insert(p) ==
    /\ inflight[p].pc = "validated"
    /\ \/ /\ inflight[p].productos_a_crear = <<>>
          /\ inflight' = [inflight EXCEPT ![p].pc = "inserted"]
       \/ /\ inflight[p].productos_a_crear # <<>>
          /\ codigos_of(inflight[p].productos_a_crear) \cap PendingOfOthers(p) = {}
          /\ inflight' = [inflight EXCEPT ![p] =
                conc_inserted(@, bulk_insert_mappings(db, @.sess, @.productos_a_crear, "none"))]
       \/ /\ inflight[p].productos_a_crear # <<>>
          /\ PendingOfOthers(p) # {}
          /\ inflight' = [inflight EXCEPT ![p] =
                conc_inserted(@, bulk_insert_mappings(db, @.sess, @.productos_a_crear, "bulk_insert"))]
    /\ UNCHANGED <<file, db, storage, storage_service, uuids, resp>>

conc_committed(w, cm) ==
    conc_returned(w, w.bulk_calls,
                  procesar_end(procesar_except(
                      try_commit(w.svc, w.productos_a_crear, w.bulk_calls, db, cm))))

\* self.db.commit() and the return of the summary.
CommitStep(p) ==
    /\ inflight[p].pc = "inserted"
    /\ db' = db_commit(db, inflight[p].sess, "none").db
    /\ inflight' = [inflight EXCEPT ![p] = conc_committed(@, db_commit(db, @.sess, "none"))]
    /\ UNCHANGED <<file, storage, storage_service, uuids, resp>>

NextConc == \E p \in Workers : Validate(p) \/ Insert(p) \/ CommitStep(p)

SpecConc == InitConc /\ [][NextConc]_vars

(***************************************************************************)
(* Properties                                                              *)
(*   resp.pass records the pass the last request ran: its kind, what it    *)
(*   returned and what it did.  `file` is the table every pass reads.      *)
(***************************************************************************)
\* The business key of data row i: codigo, trimmed and uppercased.
FileKey(i) == safe_upper(file.rows[i][1])

\* The entries a commit pass reports for data row i (numbered i + 1).
EntriesOfRow(errors, i) == {errors[k] : k \in {n \in 1..Len(errors) : errors[n].fila = IntCell(i + 1)}}

NAEntries(errors) == {k \in 1..Len(errors) : errors[k].fila = StrCell(T_NA)}

HasReason(error, tpl) == \E k \in 1..Len(error) : error[k].tpl = tpl

\* The commit pass went through every row (it may have failed afterwards).
LoopCompleted(pass) == pass.kind = "commit" /\ pass.stage \in {"bulk_insert", "commit", "done"}

PreviewCompleted(pass) == pass.kind = "preview" /\ pass.exc = "none"

\* C1: after every call to procesar_archivo, completed or rolled back, the
\* returned summary satisfies total_filas = creados + actualizados +
\* con_errores.
C1_Conservation ==
    (resp.pass.kind = "commit" /\ resp.pass.returned) =>
        LET s == resp.pass.ret.summary
        IN  s.total_filas = s.creados + s.actualizados + s.con_errores

\* C2: when an unexpected exception occurs inside a commit pass, the
\* persisted products after the pass are those before it, and the returned
\* errors hold exactly one entry whose fila is 'N/A'.
C2_RollbackOnFailure ==
    [][(resp'.pass.kind = "commit" /\ resp'.pass.exc # "none") =>
          /\ db' = db
          /\ resp'.pass.returned
          /\ Cardinality(NAEntries(resp'.pass.ret.errors)) = 1]_vars

\* A commit pass whose db.commit() failed after the bulk insert of two rows.
C2_CommitFailedAfterInsert ==
    /\ resp.pass.kind = "commit"
    /\ resp.pass.stage = "commit"
    /\ resp.pass.exc = "OperationalError"
    /\ Len(resp.pass.productos_a_crear) = 2
    /\ resp.pass.ret.summary.creados = 2

\* C3: the rows handed to the bulk insert hold no two rows with the same
\* key (trimmed, uppercased) and no row whose key is in the existing-keys
\* set loaded at the start of the pass.
C3_DisjointKeys ==
    resp.pass.kind = "commit" =>
        /\ \A c \in 1..Len(resp.pass.bulk_calls) : resp.pass.bulk_calls[c] = resp.pass.productos_a_crear
        /\ LET rows == resp.pass.productos_a_crear
           IN  /\ \A i, j \in 1..Len(rows) : rows[i].codigo = rows[j].codigo => i = j
               /\ \A i \in 1..Len(rows) :
                    /\ rows[i].codigo \notin resp.pass.svc.codigos_existentes
                    /\ rows[i].codigo = str_upper(str_strip(rows[i].codigo))
                    /\ \E n \in 1..Len(file.rows) : FileKey(n) = rows[i].codigo

\* A bulk insert of one row of a file whose other row repeats its key.
C3_DuplicateKeptOut ==
    /\ resp.pass.kind = "commit"
    /\ Len(file.rows) = 2
    /\ FileKey(1) = FileKey(2)
    /\ Len(resp.pass.bulk_calls) = 1
    /\ Len(resp.pass.bulk_calls[1]) = 1
    /\ resp.pass.ret.errors # <<>>
    /\ resp.pass.ret.errors[1].error.tpl = "CODIGO '{}' duplicado en archivo."

\* Data row j carries the key of an earlier data row.
SameKeyAsEarlier(j) == \E i \in 1..(j - 1) : FileKey(i) = FileKey(j)

\* The file as a client would send it without data row j.
FileWithout(j) ==
    [file EXCEPT !.rows = SubSeq(file.rows, 1, j - 1) \o SubSeq(file.rows, j + 1, Len(file.rows))]

\* What a preview with the cache of `pass` reports for the rows of table.
PreviewOf(table, pass) ==
    preview_loop(to_dict_records(render_columns(table)), 1, pass.svc, {}, <<>>)

\* What the loop of a commit with the cache of `pass` does with the rows of
\* table.
CommitOf(table, pass) ==
    commit_loop(iterrows(fillna_empty(normalizar_columnas(table))), 1, pass.svc, {}, <<>>, <<>>)

ProductosOfKey(rows, key) == SelectSeq(rows, LAMBDA p : p.codigo = key)

\* C4 (as stated): in both passes a row with the key of an earlier row is
\* rejected with the 'duplicated in file' reason among its reasons,
\* whatever the persisted keys and however the earlier row was classified.
C4_DuplicateAlways ==
    /\ PreviewCompleted(resp.pass) =>
         \A j \in 1..Len(file.rows) : SameKeyAsEarlier(j) =>
            /\ ~resp.pass.resultados[j].success
            /\ HasReason(resp.pass.resultados[j].error, "CODIGO '{}' esta duplicado en el archivo.")
    /\ LoopCompleted(resp.pass) =>
         \A j \in 1..Len(file.rows) : SameKeyAsEarlier(j) =>
            \E e \in EntriesOfRow(resp.pass.ret.errors, j) :
                e.error.tpl = "CODIGO '{}' duplicado en archivo."

\* C4 (amended): in a pass that goes through every row, a row with the
\* non-empty key of an earlier row is rejected; the preview lists the
\* 'duplicated in file' reason among its reasons; the commit reports one
\* reason, 'already exists' when the key is in the existing-keys set and
\* 'duplicated in file' otherwise; and the earlier rows with that key fare
\* as they do in the file without the later row.
C4_DuplicateInFile ==
    /\ PreviewCompleted(resp.pass) =>
         \A j \in 1..Len(file.rows) : (FileKey(j) # <<>> /\ SameKeyAsEarlier(j)) =>
            LET without == PreviewOf(FileWithout(j), resp.pass).resultados
            IN  /\ ~resp.pass.resultados[j].success
                /\ HasReason(resp.pass.resultados[j].error, "CODIGO '{}' esta duplicado en el archivo.")
                /\ \A i \in 1..(j - 1) : FileKey(i) = FileKey(j) =>
                     without[i] = resp.pass.resultados[i]
    /\ LoopCompleted(resp.pass) =>
         \A j \in 1..Len(file.rows) : (FileKey(j) # <<>> /\ SameKeyAsEarlier(j)) =>
            LET without == CommitOf(FileWithout(j), resp.pass)
                entries == EntriesOfRow(resp.pass.ret.errors, j)
            IN  /\ Cardinality(entries) = 1
                /\ \A e \in entries :
                     e.error.tpl = IF FileKey(j) \in resp.pass.svc.codigos_existentes
                                   THEN "CODIGO '{}' ya existe en BD."
                                   ELSE "CODIGO '{}' duplicado en archivo."
                /\ ProductosOfKey(resp.pass.productos_a_crear, FileKey(j))
                     = ProductosOfKey(without.productos_a_crear, FileKey(j))
                /\ \A i \in 1..(j - 1) : FileKey(i) = FileKey(j) =>
                     EntriesOfRow(without.errores, i) = EntriesOfRow(resp.pass.ret.errors, i)

\* A preview of two rows with one key that no product holds: the first is
\* accepted and the second is not.
C4_SecondOccurrenceRejected ==
    /\ PreviewCompleted(resp.pass)
    /\ Len(file.rows) = 2
    /\ FileKey(1) # <<>>
    /\ FileKey(1) = FileKey(2)
    /\ resp.pass.resultados[1].success
    /\ ~resp.pass.resultados[2].success

\* The category of a reason, by its message.
Category(tpl) ==
    CASE tpl \in {"CODIGO es requerido."} -> "key required"
      [] tpl \in {"CODIGO '{}' ya existe en la base de datos.", "CODIGO '{}' ya existe en BD."}
            -> "key already exists"
      [] tpl \in {"CODIGO '{}' esta duplicado en el archivo.", "CODIGO '{}' duplicado en archivo."}
            -> "key duplicated in file"
      [] tpl \in {"NOMBRE es requerido."} -> "name required"
      [] tpl \in {"CATEGORIA es requerida."} -> "category required"
      [] tpl \in {"CATEGORIA '{}' no existe en la base de datos.", "CATEGORIA '{}' no existe."}
            -> "category does not exist"
      [] tpl \in {"PRECIO debe ser un numero valido.", "PRECIO invalido."} -> "price not a number"
      [] tpl \in {"PRECIO no puede ser negativo."} -> "price negative"
      [] tpl \in {"STOCK debe ser un numero entero valido.", "STOCK invalido."} -> "stock not a number"
      [] tpl \in {"STOCK no puede ser negativo."} -> "stock negative"
      [] OTHER -> "other"

\* C5: a row is rejected by the commit pass iff the preview pass rejects
\* it, and the error the commit reports is of the category of the first
\* reason the preview lists.
C5_SameFirstCategory ==
    PreviewCompleted(resp.pass) =>
        LET c == CommitOf(file, resp.pass)
        IN  c.exc = "none" =>
              \A i \in 1..Len(file.rows) :
                 /\ (EntriesOfRow(c.errores, i) # {}) <=> ~resp.pass.resultados[i].success
                 /\ \A e \in EntriesOfRow(c.errores, i) :
                      /\ resp.pass.resultados[i].error # <<>>
                      /\ Category(e.error.tpl) = Category(resp.pass.resultados[i].error[1].tpl)

\* C6: procesar_archivo never propagates an exception: for every input it
\* returns a result with summary, errors and message, and a caught failure
\* is in the errors.
C6_NeverRaises ==
    resp.pass.kind = "commit" =>
        /\ resp.pass.raised = "none"
        /\ resp.pass.returned
        /\ DOMAIN resp.pass.ret = {"summary", "errors", "message"}
        /\ resp.pass.exc # "none" => resp.pass.ret.errors # <<>>

\* procesar_archivo called with a file name of an unsupported extension.
C6_UnsupportedExtension ==
    /\ resp.op = "procesar"
    /\ resp.args.filename = F_txt
    /\ resp.pass.stage = "read"
    /\ resp.pass.exc = "ValueError"
    /\ resp.pass.returned

\* The data rows for which a commit pass reported no rejection, in file
\* order.
RECURSIVE AcceptedRows(_, _)
AcceptedRows(errors, n) ==
    IF n = 0 THEN <<>>
    ELSE IF EntriesOfRow(errors, n) = {} THEN Append(AcceptedRows(errors, n - 1), n)
    ELSE AcceptedRows(errors, n - 1)

\* C7: in a commit pass with no unexpected failure the rows persisted are
\* the rows with no rejection, in file order, whatever the number of
\* rejected rows, and creados is their number.
C7_AcceptedRowsPersisted ==
    [][(resp'.pass.kind = "commit" /\ resp'.pass.stage = "done") =>
          LET accepted == AcceptedRows(resp'.pass.ret.errors, Len(file.rows))
              added == SubSeq(db'.productos, Len(db.productos) + 1, Len(db'.productos))
          IN  /\ Len(db'.productos) >= Len(db.productos)
              /\ SubSeq(db'.productos, 1, Len(db.productos)) = db.productos
              /\ Len(added) = Len(accepted)
              /\ \A k \in 1..Len(accepted) :
                   /\ added[k].codigo = FileKey(accepted[k])
                   /\ added[k].nombre = str_strip(py_str(file.rows[accepted[k]][2]))
                   /\ added[k].estado = 1
              /\ resp'.pass.ret.summary.creados = Len(accepted)
              /\ resp'.pass.ret.summary.con_errores + Len(accepted) = Len(file.rows)]_vars

\* A commit that persisted the second row of a file whose first row it
\* rejected.
C7_AcceptedAfterRejected ==
    /\ resp.pass.kind = "commit"
    /\ resp.pass.stage = "done"
    /\ Len(file.rows) = 2
    /\ EntriesOfRow(resp.pass.ret.errors, 1) # {}
    /\ EntriesOfRow(resp.pass.ret.errors, 2) = {}
    /\ resp.pass.ret.summary.creados = 1
    /\ \E k \in 1..Len(db.productos) : db.productos[k].codigo = FileKey(2)

\* What a client sees of a preview row.
RowView(item) == [success |-> item.success, fila |-> item.fila, error |-> item.error]

\* C8: a preview request writes nothing (persisted products and categories
\* and the staged artifacts are as before it), and a preview that follows a
\* preview of the same artifact, nothing in between, returns the same
\* success flag, row number and error for every row.
C8_PreviewWritesNothing ==
    [][resp'.op = "render" =>
          /\ db' = db
          /\ storage' = storage
          /\ (resp.op = "render" /\ resp.code = 200 /\ resp'.code = 200 /\ resp'.args = resp.args) =>
                /\ Len(resp'.data) = Len(resp.data)
                /\ \A i \in 1..Len(resp.data) : RowView(resp'.data[i]) = RowView(resp.data[i])
                /\ resp'.tiene_errores = resp.tiene_errores]_vars

\* A preview that rejected a row, answered after a commit had persisted
\* rows of the artifact.
C8_PreviewAfterCommit ==
    /\ resp.op = "render"
    /\ resp.code = 200
    /\ resp.tiene_errores
    /\ Len(resp.data) = 2
    /\ Len(db.productos) = 2
    /\ storage # {}

\* Data row i has a key no active product and no earlier row holds, a name
\* and an active category.
ValidRequired(i, pass) ==
    /\ FileKey(i) # <<>>
    /\ FileKey(i) \notin pass.svc.codigos_existentes
    /\ ~SameKeyAsEarlier(i)
    /\ ~pd_isna(file.rows[i][2])
    /\ str_strip(py_str(file.rows[i][2])) # <<>>
    /\ HasKey(pass.svc.categorias_map, safe_upper(file.rows[i][3]))

\* The price and stock cells of data row i are blank, or the file has no
\* price and stock columns.
OptionalBlank(i) ==
    \/ file.columns = RequiredColumns
    \/ /\ file.columns = FullColumns
       /\ pd_isna(file.rows[i][4])
       /\ pd_isna(file.rows[i][5])

\* C9: a row with a valid key, name and category whose price and stock are
\* blank or absent is accepted by the preview and by the commit, and the
\* commit persists it with precio = 0 and stock = 0.
C9_BlankOptionalAccepted ==
    /\ PreviewCompleted(resp.pass) =>
         \A i \in 1..Len(file.rows) :
            (ValidRequired(i, resp.pass) /\ OptionalBlank(i)) => resp.pass.resultados[i].success
    /\ (resp.pass.kind = "commit" /\ resp.pass.stage = "done") =>
         \A i \in 1..Len(file.rows) :
            (ValidRequired(i, resp.pass) /\ OptionalBlank(i)) =>
               /\ EntriesOfRow(resp.pass.ret.errors, i) = {}
               /\ \E k \in 1..Len(db.productos) :
                    /\ db.productos[k].codigo = FileKey(i)
                    /\ db.productos[k].precio = IntCell(0)
                    /\ db.productos[k].stock = 0

\* The keys of the active products of a database.
ActiveCodes(d) ==
    {d.productos[k].codigo : k \in {n \in 1..Len(d.productos) :
                                      d.productos[n].estado = 1 /\ d.productos[n].codigo # <<>>}}

\* The pass got past the loading of its cache.
CacheLoaded(pass) ==
    \/ pass.kind = "preview" /\ pass.exc # "OperationalError"
    \/ pass.kind = "commit" /\ pass.stage # "precache"

\* C10: every pass builds its cache from the persisted state at its own
\* start: its existing-keys set is the keys of the active products at that
\* moment, so a row carrying a key an earlier commit persisted is rejected
\* as 'already exists'.
C10_CacheRebuiltEachPass ==
    [][CacheLoaded(resp'.pass) =>
          /\ resp'.pass.svc.codigos_existentes = ActiveCodes(db)
          /\ PreviewCompleted(resp'.pass) =>
                \A i \in 1..Len(file.rows) : FileKey(i) \in ActiveCodes(db) =>
                   /\ ~resp'.pass.resultados[i].success
                   /\ HasReason(resp'.pass.resultados[i].error,
                                "CODIGO '{}' ya existe en la base de datos.")
          /\ LoopCompleted(resp'.pass) =>
                \A i \in 1..Len(file.rows) : FileKey(i) \in ActiveCodes(db) =>
                   \E e \in EntriesOfRow(resp'.pass.ret.errors, i) :
                       e.error.tpl = "CODIGO '{}' ya existe en BD."]_vars

\* A preview that rejects as 'already exists' a key that only a commit of
\* this artifact can have persisted.
C10_RejectedAfterCommit ==
    /\ PreviewCompleted(resp.pass)
    /\ \E i \in 1..Len(file.rows) :
          /\ FileKey(i) = <<"B">>
          /\ FileKey(i) \in ActiveCodes(db)
          /\ HasReason(resp.pass.resultados[i].error, "CODIGO '{}' ya existe en la base de datos.")

\* The name ends, whatever its case, in none of .csv, .xls, .xlsx.
UnsupportedName(filename) ==
    \A ext \in {Ext_csv, Ext_xls, Ext_xlsx} : ~str_endswith(str_lower(filename), ext)

PathOf(args) == <<STORAGE_PATH_MAP[args.tipo_entidad], args.carga_id, args.filename>>

\* C12: a render or commit for which no artifact is staged answers 404 and
\* changes nothing in the persisted state; and 404 is answered only when
\* the artifact is missing, any other storage or processing failure
\* answering 500.
C12_NotFoundIffMissing ==
    [][resp'.op \in {"render", "commit"} =>
          LET staged == /\ resp'.args.tipo_entidad \in DOMAIN STORAGE_PATH_MAP
                        /\ storage_exists(storage, PathOf(resp'.args))
          IN  /\ ~staged => (resp'.code = 404 /\ db' = db)
              /\ resp'.code = 404 => ~staged]_vars

\* The answer to a request that read the bytes b of the staged artifact.
AnswerReading(op, args, b, fault) ==
    IF op = "render"
    THEN render_downloaded(args, db, storage, NewSession, [exc |-> "none", bytes |-> b], fault)
    ELSE commit_downloaded(args, db, storage, NewSession, [exc |-> "none", bytes |-> b], fault)

\* C13: an upload stages the bytes it was given under (type, carga_id,
\* filename); no step alters or removes a staged artifact, a render or a
\* commit leaves the storage as it was, and a render or commit of a staged
\* artifact answers, and writes, what reading exactly its bytes gives.
C13_StagedBytesRead ==
    [][/\ \A f \in storage : f \in storage'
       /\ (resp'.op = "upload" /\ resp'.code = 200) =>
             storage' = storage \cup {[path |-> PathOf(resp'.args),
                                       bytes |-> [fmt |-> (CHOOSE k \in UploadKinds :
                                                              k.filename = resp'.args.filename
                                                              /\ [path |-> PathOf(resp'.args),
                                                                  bytes |-> [fmt |-> k.fmt, table |-> file]]
                                                                 \in storage').fmt,
                                                  table |-> file]]}
       /\ resp'.op \in {"render", "commit"} =>
             /\ storage' = storage
             /\ \A f \in storage :
                   (resp'.args.tipo_entidad = "productos" /\ f.path = PathOf(resp'.args)) =>
                       \E fault \in Faults :
                           LET r == AnswerReading(resp'.op, resp'.args, f.bytes, fault)
                           IN  r.resp = resp' /\ r.db = db']_vars

\* A commit that persisted rows of a staged artifact, the artifact still
\* staged.
C13_CommittedStillStaged ==
    /\ resp.op = "commit"
    /\ resp.code = 200
    /\ resp.pass.ret.summary.creados = 2
    /\ \E f \in storage : f.path = PathOf(resp.args) /\ f.bytes.table = file

\* The uppercased names of the categories of d with estado e.
CategoryNames(d, e) ==
    {str_upper(d.categorias[k].nombre) : k \in {n \in 1..Len(d.categorias) : d.categorias[n].estado = e}}

\* The keys of the products of d with estado e.
ProductCodes(d, e) ==
    {d.productos[k].codigo : k \in {n \in 1..Len(d.productos) : d.productos[n].estado = e}}

\* Data row i names a category that only inactive categories carry.
NamesInactiveCategory(i) ==
    str_upper(str_strip(py_str(file.rows[i][3]))) \in CategoryNames(db, 0) \ CategoryNames(db, 1)

\* The key of data row i is the key of inactive products only.
KeyOfInactiveOnly(i) == FileKey(i) \in ProductCodes(db, 0) \ ProductCodes(db, 1)

C15_SeenOnlyWhenAccepted ==
    /\ PreviewCompleted(resp.pass) =>
          \A j \in 1..Len(file.rows) :
             (\A i \in 1..(j - 1) : FileKey(i) = FileKey(j) => ~resp.pass.resultados[i].success) =>
                 ~HasReason(resp.pass.resultados[j].error, "CODIGO '{}' esta duplicado en el archivo.")
    /\ LoopCompleted(resp.pass) =>
          \A j \in 1..Len(file.rows) :
             (\A i \in 1..(j - 1) : FileKey(i) = FileKey(j) => EntriesOfRow(resp.pass.ret.errors, i) # {}) =>
                 \A e \in EntriesOfRow(resp.pass.ret.errors, j) :
                     e.error.tpl # "CODIGO '{}' duplicado en archivo."

\* The reasons of a joined error string: its elements at the odd positions.
ReasonsOf(error) == [k \in 1..((Len(error) + 1) \div 2) |-> error[2 * k - 1]]

\* The position of a reason in the order of the rules.
RuleRank(tpl) ==
    CASE Category(tpl) = "key required" -> 1
      [] Category(tpl) = "key already exists" -> 2
      [] Category(tpl) = "key duplicated in file" -> 3
      [] Category(tpl) = "name required" -> 4
      [] Category(tpl) \in {"category required", "category does not exist"} -> 5
      [] Category(tpl) \in {"price not a number", "price negative"} -> 6
      [] Category(tpl) \in {"stock not a number", "stock negative"} -> 7
      [] OTHER -> 0

\* C16: in a completed preview the error string of every row is the
\* '; '-join of its reasons, the reasons are in the order key required,
\* already exists, duplicated in file, name, category, price, quantity, the
\* reason of each rule is there exactly when that rule, taken alone, fails
\* for the row (whatever the other rules say), and success is TRUE exactly
\* when there is no reason.
C16_AllRulesJoinedInOrder ==
    PreviewCompleted(resp.pass) =>
        \A i \in 1..Len(file.rows) :
            LET item == resp.pass.resultados[i]
                fila == resp.pass.filas[i]
                R == ReasonsOf(item.error)
                has(n) == \E k \in 1..Len(R) : RuleRank(R[k].tpl) = n
                svc == resp.pass.svc
            IN  /\ item.error = join_reasons(R)
                /\ \A k \in 1..Len(R) : R[k] # Sep /\ RuleRank(R[k].tpl) # 0
                /\ \A k \in 1..(Len(R) - 1) : RuleRank(R[k].tpl) < RuleRank(R[k + 1].tpl)
                /\ has(1) <=> FileKey(i) = <<>>
                /\ has(2) <=> (FileKey(i) # <<>> /\ FileKey(i) \in svc.codigos_existentes)
                /\ has(3) <=> (FileKey(i) # <<>> /\ SameKeyAsEarlier(i))
                /\ has(4) <=> preview_nombre(str_strip(py_str(dict_get(fila, T_nombre, EmptyStr)))) # <<>>
                /\ has(5) <=> preview_categoria(safe_upper(dict_get(fila, T_categoria, EmptyStr)), svc) # <<>>
                /\ has(6) <=> preview_precio(dict_get(fila, T_precio, EmptyStr)) # <<>>
                /\ has(7) <=> preview_stock(dict_get(fila, T_stock, EmptyStr)).errores # <<>>
                /\ item.success <=> R = <<>>

\* A completed preview with a row that fails the key, name, category, price
\* and quantity rules at once.
C16_FiveReasons ==
    /\ PreviewCompleted(resp.pass)
    /\ \E i \in 1..Len(file.rows) :
          /\ Len(resp.pass.resultados[i].error) = 9
          /\ resp.pass.resultados[i].error[1].tpl = "CODIGO es requerido."
          /\ resp.pass.resultados[i].error[9].tpl = "STOCK no puede ser negativo."

\* C17: the commit's column normalization renames a header whose trimmed,
\* uppercased form is a key of the override map to the mapped field, and
\* every other header to what aplanar_nombre_columna gives for it.
C17_OverrideThenGeneric ==
    resp.op = "_normalizar_columnas" =>
        LET header == resp.args.filename
            key == str_upper(str_strip(header))
        IN  resp.data[1] = IF HasKey(get_column_map, key)
                           THEN get_column_map.v[CHOOSE i \in 1..Len(get_column_map.k) :
                                                    get_column_map.k[i] = key]
                           ELSE aplanar_nombre_columna(header)

\* C18: aplanar_nombre_columna applied to a name it returned gives that
\* name back.
C18_AplanarIdempotent ==
    resp.op = "aplanar_nombre_columna again" => resp.data[1] = resp.args.filename

\* C19: after a commit pass that completed with no unexpected failure,
\* the existing-keys set a new pass builds is the set the pass began with
\* together with the keys of the rows it accepted, which are as many as
\* the rows it reports created and none of which was in the set before.
C19_ExistingKeysGrowByAccepted ==
    [][(resp'.pass.kind = "commit" /\ resp'.pass.stage = "done") =>
          LET accepted == AcceptedRows(resp'.pass.ret.errors, Len(file.rows))
              keys == {FileKey(accepted[k]) : k \in 1..Len(accepted)}
              rebuilt == precache_data(NewService, db', NewSession, "none").svc.codigos_existentes
          IN  /\ rebuilt = resp'.pass.svc.codigos_existentes \cup keys
              /\ keys \cap resp'.pass.svc.codigos_existentes = {}
              /\ Cardinality(keys) = Len(accepted)
              /\ Len(accepted) = resp'.pass.ret.summary.creados]_vars

\* A commit of two rows that created one product in a table that held an
\* active one.
C19_KeyAdded ==
    /\ resp.pass.kind = "commit"
    /\ resp.pass.stage = "done"
    /\ Len(file.rows) = 2
    /\ resp.pass.ret.summary.creados = 1
    /\ resp.pass.svc.codigos_existentes = {<<"A">>}
    /\ ActiveCodes(db) = {<<"A">>, <<"B">>}

\* C20: the message of a returned summary is decided by the final creados
\* and con_errores alone: both positive, only creados positive, only
\* con_errores positive, or both zero, each with its own text and the
\* counts it quotes; a commit of a file with no data rows that meets no
\* failure returns total_filas = creados = con_errores = 0 and the 'no
\* valid data' message.
C20_MessageFromCounts ==
    (resp.pass.kind = "commit" /\ resp.pass.returned) =>
        LET c == resp.pass.ret.summary.creados
            e == resp.pass.ret.summary.con_errores
            m == resp.pass.ret.message
        IN  /\ (c > 0 /\ e > 0) =>
                  m = [tpl |-> "Se crearon {} productos. Se encontraron {} errores.", args |-> <<c, e>>]
            /\ (c > 0 /\ e = 0) =>
                  m = [tpl |-> "Se crearon {} productos correctamente.", args |-> <<c>>]
            /\ (c = 0 /\ e > 0) =>
                  m = [tpl |-> "No se pudo cargar ningun producto. {} errores encontrados.", args |-> <<e>>]
            /\ (c = 0 /\ e = 0) =>
                  m = [tpl |-> "No se encontraron datos validos para procesar.", args |-> <<>>]
            /\ c >= 0 /\ e >= 0
            /\ (file.rows = <<>> /\ resp.pass.exc = "none") =>
                  /\ resp.pass.ret.summary.total_filas = 0
                  /\ c = 0 /\ e = 0
                  /\ m.tpl = "No se encontraron datos validos para procesar."

\* A commit of a file that has its header and no data row.
C20_EmptyFileCommitted ==
    /\ resp.op = "commit"
    /\ resp.code = 200
    /\ file.rows = <<>>
    /\ resp.pass.stage = "done"
    /\ resp.pass.ret.message.tpl = "No se encontraron datos validos para procesar."

\* C21: a commit pass calls the bulk insert at most once; when it calls
\* it, the loop has gone through every data row, each row is either
\* rejected or in the call, and the call carries the accepted rows in file
\* order; a pass whose loop accepted no row does not call it.
C21_SingleBulkInsert ==
    resp.pass.kind = "commit" =>
        LET accepted == AcceptedRows(resp.pass.svc.errores, Len(file.rows))
        IN  /\ Len(resp.pass.bulk_calls) <= 1
            /\ resp.pass.bulk_calls # <<>> =>
                  /\ LoopCompleted(resp.pass)
                  /\ Len(resp.pass.bulk_calls[1]) = Len(accepted)
                  /\ \A k \in 1..Len(accepted) :
                        resp.pass.bulk_calls[1][k].codigo = FileKey(accepted[k])
                  /\ accepted # <<>>
            /\ (LoopCompleted(resp.pass) /\ accepted = <<>>) => resp.pass.bulk_calls = <<>>
            /\ (LoopCompleted(resp.pass) /\ accepted # <<>>) => Len(resp.pass.bulk_calls) = 1

\* A completed commit whose one bulk insert carried both rows of the file.
C21_BothRowsInOneCall ==
    /\ resp.pass.kind = "commit"
    /\ resp.pass.stage = "done"
    /\ Len(file.rows) = 2
    /\ Len(resp.pass.bulk_calls) = 1
    /\ Len(resp.pass.bulk_calls[1]) = 2
    /\ resp.pass.bulk_calls[1][1].codigo # resp.pass.bulk_calls[1][2].codigo

\* The keys of the rows of the file worker p commits.
KeysOfWorker(p) ==
    {safe_upper(inflight[p].content.rows[i][1]) : i \in 1..Len(inflight[p].content.rows)}

\* Worker p has built its cache and validated its rows, and has not ended.
Validated(p) == inflight[p].pc \in {"validated", "inserted"}

\* C22: two commit passes do not exclude each other: while both have
\* validated and neither has ended, each has accepted every valid new key
\* of its file, so a key that both files carry and no active product holds
\* is among the accepted rows of both.
C22_BothAcceptSameKey ==
    \A p, q \in DOMAIN inflight :
        (p # q /\ Validated(p) /\ Validated(q)) =>
            \A k \in KeysOfWorker(p) \cap KeysOfWorker(q) :
                k \notin ActiveCodes(db) =>
                    /\ k \in codigos_of(inflight[p].productos_a_crear)
                    /\ k \in codigos_of(inflight[q].productos_a_crear)
                    /\ k \notin inflight[p].svc.codigos_existentes
                    /\ k \notin inflight[q].svc.codigos_existentes

\* Both passes have built their cache, neither has persisted, and both
\* have accepted a row with the key B.
C22_SameKeyAcceptedTwice ==
    /\ DOMAIN inflight = Workers
    /\ inflight[1].pc = "validated"
    /\ inflight[2].pc = "validated"
    /\ <<"B">> \in codigos_of(inflight[1].productos_a_crear)
    /\ <<"B">> \in codigos_of(inflight[2].productos_a_crear)
    /\ inflight[1].sess.pending = <<>>
    /\ inflight[2].sess.pending = <<>>
    /\ <<"B">> \notin codigos_of(db.productos)

\* C23: for every raw header the name under which the preview looks the
\* column up is the name the commit gives it.
C23_SameColumnName ==
    resp.op = "preview column" =>
        resp.data[1] = normalizar_columnas([columns |-> <<resp.args.filename>>, rows |-> <<>>]).columns[1]

\* C24: no step changes or removes a product or a category that is
\* persisted: the products after a step begin with the products before it.
\* A commit pass adds no product with a key the table already holds,
\* rejects every row whose key an active product holds as 'already exists',
\* and returns actualizados = 0.
C24_OnlyGrows ==
    [][/\ Len(db'.productos) >= Len(db.productos)
       /\ SubSeq(db'.productos, 1, Len(db.productos)) = db.productos
       /\ db'.categorias = db.categorias
       /\ resp'.pass.kind = "commit" =>
             /\ resp'.pass.returned => resp'.pass.ret.summary.actualizados = 0
             /\ \A k \in (Len(db.productos) + 1)..Len(db'.productos) :
                   db'.productos[k].codigo \notin codigos_of(db.productos)
             /\ LoopCompleted(resp'.pass) =>
                   \A i \in 1..Len(file.rows) : FileKey(i) \in ActiveCodes(db) =>
                      /\ \E e \in EntriesOfRow(resp'.pass.ret.errors, i) :
                            e.error.tpl = "CODIGO '{}' ya existe en BD."
                      /\ \A n \in 1..Len(resp'.pass.productos_a_crear) :
                            resp'.pass.productos_a_crear[n].codigo # FileKey(i)]_vars

\* A commit that rejected the row with the key of the product the table
\* held, kept that product and created the other row.
C24_ExistingKept ==
    /\ resp.op = "commit"
    /\ resp.code = 200
    /\ resp.pass.stage = "done"
    /\ Len(file.rows) = 2
    /\ \E e \in EntriesOfRow(resp.pass.ret.errors, 1) : e.error.tpl = "CODIGO '{}' ya existe en BD."
    /\ resp.pass.ret.summary.creados = 1
    /\ Len(db.productos) = 2
    /\ db.productos[1] = Producto0(<<"A">>, 1)

\* C25: the creados of every summary a commit pass returns is the number
\* of products the pass added to the table, and is 0 when the pass was
\* rolled back.
C25_CreadosIsAdded ==
    [][(resp'.pass.kind = "commit" /\ resp'.pass.returned) =>
          /\ resp'.pass.ret.summary.creados = Len(db'.productos) - Len(db.productos)
          /\ resp'.pass.exc # "none" => resp'.pass.ret.summary.creados = 0]_vars

\* C26: in every interleaving of two commit passes no two persisted
\* products have the same codigo and no persisted product is lost; a pass
\* that ends in an exception (the IntegrityError of the unique constraint
\* among them, raised for a key the table holds by then) leaves the table
\* as it was, keeps none of its rows pending and returns one 'N/A' entry;
\* a pass that ends without one adds exactly its accepted rows.
C26_UniqueUnderInterleaving ==
    [][/\ \A i, j \in 1..Len(db'.productos) :
             db'.productos[i].codigo = db'.productos[j].codigo => i = j
       /\ Len(db'.productos) >= Len(db.productos)
       /\ SubSeq(db'.productos, 1, Len(db.productos)) = db.productos
       /\ \A p \in DOMAIN inflight :
             (inflight'[p].pc = "done" /\ inflight[p].pc # "done") =>
                 IF inflight'[p].exc # "none"
                 THEN /\ db' = db
                      /\ inflight'[p].sess.pending = <<>>
                      /\ inflight'[p].returned
                      /\ Cardinality(NAEntries(inflight'[p].ret.errors)) = 1
                      /\ inflight'[p].exc = "IntegrityError" =>
                            codigos_of(inflight[p].productos_a_crear) \cap codigos_of(db.productos) # {}
                 ELSE db'.productos = db.productos \o inflight[p].productos_a_crear]_vars

\* The second pass hit the constraint with a call of two rows, one of them
\* with a key nobody else inserted; the rows of the first pass persist and
\* none of the second.
C26_LoserRolledBack ==
    /\ DOMAIN inflight = Workers
    /\ inflight[1].pc = "done"
    /\ inflight[1].exc = "none"
    /\ inflight[1].ret.summary.creados = 1
    /\ inflight[2].pc = "done"
    /\ inflight[2].exc = "IntegrityError"
    /\ codigos_of(inflight[2].productos_a_crear) = {<<"A">>, <<"B">>}
    /\ codigos_of(db.productos) = {<<"B">>}

\* C27: a commit of the same staged file right after a commit of it that
\* completed adds nothing: the table is unchanged, creados is 0, and when
\* its loop completes every row the first pass accepted has the entry
\* 'already exists'.
C27_SecondCommitAddsNothing ==
    [][(/\ resp.op = "commit" /\ resp.pass.kind = "commit" /\ resp.pass.stage = "done"
        /\ resp'.op = "commit" /\ resp'.pass.kind = "commit" /\ resp'.args = resp.args) =>
          /\ db' = db
          /\ resp'.pass.ret.summary.creados = 0
          /\ resp'.pass.productos_a_crear = <<>>
          /\ LoopCompleted(resp'.pass) =>
                LET accepted == AcceptedRows(resp.pass.ret.errors, Len(file.rows))
                IN  \A k \in 1..Len(accepted) :
                       \E e \in EntriesOfRow(resp'.pass.ret.errors, accepted[k]) :
                           e.error.tpl = "CODIGO '{}' ya existe en BD."]_vars

\* A completed commit that created nothing and rejected both rows of the
\* file as 'already exists', the table holding the two products an earlier
\* commit of the file created.
C27_SecondCommitRejectsAll ==
    /\ resp.op = "commit"
    /\ resp.pass.kind = "commit"
    /\ resp.pass.stage = "done"
    /\ resp.pass.ret.summary.creados = 0
    /\ Len(file.rows) = 2
    /\ \A i \in 1..2 : \E e \in EntriesOfRow(resp.pass.ret.errors, i) :
                          e.error.tpl = "CODIGO '{}' ya existe en BD."
    /\ Len(db.productos) = 2
    /\ db.productos[1].codigo = FileKey(1)
    /\ db.productos[2].codigo = FileKey(2)
    /\ db.productos[1] # Producto0(<<"A">>, 1)

\* precio >= 0 for a stored price.
PrecioNotNegative(precio) ==
    \/ precio.t \in {"int", "float"} /\ precio.v >= 0
    \/ precio.t = "inf" /\ precio.v > 0

\* C28: every product a commit pass adds has a non-empty, trimmed,
\* uppercase codigo, a non-empty nombre, the id of an active category,
\* precio >= 0, stock >= 0 and estado = 1.
C28_AddedRecordsValid ==
    [][\A k \in (Len(db.productos) + 1)..Len(db'.productos) :
          LET p == db'.productos[k]
          IN  /\ p.codigo # <<>>
              /\ p.codigo = str_upper(str_strip(p.codigo))
              /\ p.nombre # <<>>
              /\ \E c \in 1..Len(db.categorias) :
                    db.categorias[c].id = p.categoria_id /\ db.categorias[c].estado = 1
              /\ PrecioNotNegative(p.precio)
              /\ p.stock \in Nat
              /\ p.estado = 1]_vars

\* C29: a render or commit for an entity type of TipoEntidad that has no
\* registered service answers 400 'Tipo de entidad ... no valido.' and
\* writes nothing.
C29_UnregisteredTypeIs400 ==
    [][(resp'.op \in {"render", "commit"} /\ resp'.args.tipo_entidad \in TipoEntidad \ SERVICIOS_MAP) =>
          /\ resp'.code = 400
          /\ resp'.detail = "Tipo de entidad '{}' no valido."
          /\ db' = db
          /\ storage' = storage]_vars

=============================================================================
